---- MODULE Spec2Model ----
(***************************************************************************)
(* Gas Town supervisor subsystem.                                          *)
(*                                                                         *)
(*  - the restart tracker (internal/daemon/restart_tracker.go): per-agent  *)
(*    exponential backoff, crash-loop state, Save/Load of                  *)
(*    <town>/daemon/restart_state.json;                                    *)
(*  - the supervisor tick that drives it (spec section 4.1);               *)
(*  - dispatch (executeSling) with its per-bead advisory lock (spec        *)
(*    section 4.4).                                                        *)
(*                                                                         *)
(* Times are whole seconds on the daemon's clock.  time.Time{} (the zero   *)
(* time) is ZeroTime, which lies before every clock reading.               *)
(***************************************************************************)
EXTENDS Integers, Sequences, FiniteSets, TLC

VARIABLES
    now,        \* the wall clock (what time.Now() returns)
    config,     \* rt.config
    agents,     \* rt.state.Agents: agent id -> AgentRestartInfo
    alive,      \* agent id -> whether the agent's session is running
    last,       \* the last operation: [op, id, pre], pre = rt.state.Agents before it
    streak,     \* agent id -> RecordRestart calls since the record was last reset
    hist,       \* agent id -> times of the latest RecordRestart calls since the last clear
    disk,       \* restart_state.json: [exists, agents]
    pc,         \* per dispatch call: its position in executeSling
    call,       \* per dispatch call: its SlingParams
    result,     \* per dispatch call: the error of its last return ("" = nil)
    holders,    \* per lock key <<town_root, bead_id>>: the calls holding the flock
    rigStatus,  \* rig -> "operational" | "parked" | "docked"
    beadStatus, \* bead -> "open" | "closed"
    queued,     \* beads whose description carries queue metadata
    sessions,   \* beads for which a session was started
    mu,         \* rt.mu: the goroutines that hold the tracker's mutex
    gpc,        \* per goroutine: its position in the tracker call it is making
    gcall,      \* per goroutine: the call, [op, id]
    glocal,     \* per goroutine: what the call has read, [st, t]
    lin,        \* the map that the calls, run one after another in lock order, produce
    hq,         \* convoy id -> the convoy bead in the town store: [status, desc, owned]
    deps,       \* convoy id -> the targets of its tracks dependencies
    stamp,      \* bead -> the convoy id on the bead's attachment record ("" = none)
    dpc,        \* per dispatcher: its position in the dispatch it is running
    dcall,      \* per dispatcher: the dispatch, [kind, beads, owned, merge]
    dloc,       \* per dispatcher: locals [convoy, i, tracked, outs]
    dret,       \* the error of the dispatch that returned last, until the next one begins
    cinfo,      \* the last getConvoyInfoForIssue call: [bead, found, info, flow]
    launched,   \* the convoys that have been open or closed
    lastReq,    \* the last status change asked for: [cv, current, target, err]
    qm,         \* the QueueMetadata given to FormatQueueMetadata
    qdesc,      \* the bead description before the queue block is written
    qtext,      \* the bead description as written
    qparsed,    \* what ParseQueueMetadata returned
    qpc,        \* "new", "written", "noted", "parsed", "parsedNoted", "stripped"
    qstripped,  \* what StripQueueMetadata returned
    pidFile,    \* the daemon's PID file: [exists, data]
    procs,      \* pid -> the process that has it: a daemon, "other", or "dead"
    wrote,      \* daemon -> the (pid, nonce) its writePIDFile call was asked to write
    wpc,        \* daemon -> its position in writePIDFile
    wbuf,       \* daemon -> the bytes of its os.WriteFile not yet written
    vres,       \* the last verifyPIDOwnership call: [read, pid, nonce, alive, err]
    hbNow,      \* the wall clock of the heartbeat checks, in seconds
    hbFiles,    \* session -> its heartbeat file: [kind, Timestamp]
    hbRes,      \* the last IsSessionHeartbeatStale call: [session, at, file, stale, exists]
    pNow,       \* the clock of the patrol scheduler, in ticks
    pEnabled,   \* patrol -> its enabled flag
    lastRun,    \* patrol -> the time its last_run holds
    active,     \* patrol -> the number of its runs in progress
    spawnedAt,  \* patrol -> the time its latest run was spawned
    mNow,       \* the wall clock of the maintenance patrol, in minutes
    mConfig,    \* the scheduled_maintenance patrol config
    lastMaintenanceRun,\* Daemon.lastMaintenanceRun
    mRuns,      \* the invocations of gt maintain: [at, ok]
    mOutcome,   \* how the latest check ended
    sdSessions, \* the tmux sessions the server lists
    sdFlags,    \* the flags of gt shutdown
    sdToStop,   \* the sessions to stop, in list order
    sdPC,       \* the position of the shutdown command
    sdIdx,      \* the index of the loop the command is in
    sdRemaining,\* the countdown of the wait phase, in seconds
    sdEsc,      \* the sessions that were sent ESC
    sdMsg,      \* the sessions that were sent the shutdown request
    sdSlept,    \* the seconds slept in the wait phase
    sdKills,    \* the KillSession calls made: [sess, ok]
    mrIssues,   \* the merge-request beads, in the order List returns them
    mrRes,      \* the latest FindMRForBranch call and its result
    acEnv,      \* BD_DOLT_AUTO_COMMIT in the environment of gt sling
    acCall,     \* the convoy creation that runs
    acPC,       \* its position
    acCmds,     \* the bd commands it has run: [verb, dir, autoCommit, ok]
    acRet,      \* what it returned
    rlNow,      \* the clock of the reload model
    rlFile,     \* restart_state.json
    rlMem,      \* the daemon's rt.state.Agents
    rlCli,      \* the gt daemon clear-backoff process
    rlPanic,    \* the daemon has panicked
    rlLast,     \* the last tracker call and its result
    rlClear     \* the crash-loop clear last written by ClearAgentBackoff

vars == <<now, config, agents, alive, last, streak, hist, disk,
          pc, call, result, holders, rigStatus, beadStatus, queued, sessions,
          mu, gpc, gcall, glocal, lin,
          hq, deps, stamp, dpc, dcall, dloc, dret, cinfo, launched, lastReq,
          qm, qdesc, qtext, qparsed, qpc, qstripped,
          pidFile, procs, wrote, wpc, wbuf, vres,
          hbNow, hbFiles, hbRes,
          pNow, pEnabled, lastRun, active, spawnedAt,
          mNow, mConfig, lastMaintenanceRun, mRuns, mOutcome,
          sdSessions, sdFlags, sdToStop, sdPC, sdIdx, sdRemaining, sdEsc, sdMsg, sdSlept, sdKills,
          mrIssues, mrRes,
          acEnv, acCall, acPC, acCmds, acRet,
          rlNow, rlFile, rlMem, rlCli, rlPanic, rlLast, rlClear>>

trackerVars == <<now, config, agents, alive, last, streak, hist, disk>>
slingVars   == <<pc, call, result, holders, rigStatus, beadStatus, queued, sessions>>
concVars    == <<mu, gpc, gcall, glocal, lin>>

\* What lies outside the tracker and dispatch.
convoyVars  == <<hq, deps, stamp, dpc, dcall, dloc, dret, cinfo>>
statusVars  == <<launched, lastReq>>
queueVars   == <<qm, qdesc, qtext, qparsed, qpc, qstripped>>
pidVars     == <<pidFile, procs, wrote, wpc, wbuf, vres>>
hbVars      == <<hbNow, hbFiles, hbRes>>
patrolVars  == <<pNow, pEnabled, lastRun, active, spawnedAt>>
maintVars   == <<mNow, mConfig, lastMaintenanceRun, mRuns, mOutcome>>
shutdownVars == <<sdSessions, sdFlags, sdToStop, sdPC, sdIdx, sdRemaining, sdEsc, sdMsg, sdSlept, sdKills>>
mrVars      == <<mrIssues, mrRes>>
acVars      == <<acEnv, acCall, acPC, acCmds, acRet>>
reloadVars  == <<rlNow, rlFile, rlMem, rlCli, rlPanic, rlLast, rlClear>>
lateVars    == <<pidVars, hbVars, patrolVars, maintVars, shutdownVars, mrVars, acVars, reloadVars>>
extVars     == <<concVars, convoyVars, statusVars, queueVars, lateVars>>

----------------------------------------------------------------------------
(* Bounds of the model.                                                    *)

MaxNow == 1920          \* the clock stops advancing here (seconds)
MaxRestarts == 7        \* RecordRestart is not called on a record that counts this many

AgentIDs == {"a"}
Delays == {30, 900, 1800}   \* how far one clock step may advance
CoarseDelays == {300, 900}  \* the clock steps of the coarser specifications

Calls == {"c1", "c2"}       \* executeSling invocations that may run at once
Towns == {"/town"}
Beads == {"gt-1", "gt-2"}
Rigs  == {"testrig"}

----------------------------------------------------------------------------
(* time.Time and time.Duration.                                            *)

ZeroTime == 0
maxDuration == 2147483647

IsZero(t) == t = ZeroTime

\* t.After(u)
After(t, u) == t > u

\* t.Sub(u); saturates when u is the zero time
Sub(t, u) == IF IsZero(u) THEN maxDuration ELSE t - u

----------------------------------------------------------------------------
(* RestartTrackerConfig.                                                   *)

DefaultRestartTrackerConfig ==
    [ InitialBackoff    |-> 30,
      MaxBackoff        |-> 600,
      BackoffMultiplier |-> 2,
      CrashLoopWindow   |-> 900,
      CrashLoopCount    |-> 5,
      StabilityPeriod   |-> 1800 ]

ConfigFields == DOMAIN DefaultRestartTrackerConfig

withDefaults(c) ==
    [ f \in ConfigFields |->
        IF c[f] <= 0 THEN DefaultRestartTrackerConfig[f] ELSE c[f] ]

\* The configurations a tracker is constructed with: the zero config, one
\* with negative fields, and a compressed one.
ConfigInputs ==
    { [ InitialBackoff |-> 0, MaxBackoff |-> 0, BackoffMultiplier |-> 0,
        CrashLoopWindow |-> 0, CrashLoopCount |-> 0, StabilityPeriod |-> 0 ],
      [ InitialBackoff |-> 60, MaxBackoff |-> 300, BackoffMultiplier |-> 3,
        CrashLoopWindow |-> -1, CrashLoopCount |-> 3, StabilityPeriod |-> 900 ] }

----------------------------------------------------------------------------
(* AgentRestartInfo and the tracker's operations, as functions of the map  *)
(* rt.state.Agents (st), the config and the clock reading.                 *)

NewInfo ==
    [ LastRestart |-> ZeroTime, RestartCount |-> 0,
      BackoffUntil |-> ZeroTime, CrashLoopSince |-> ZeroTime ]

Put(st, id, info) ==
    [ k \in (DOMAIN st) \cup {id} |-> IF k = id THEN info ELSE st[k] ]

NewRestartTracker(c) == withDefaults(c)

\* CanRestart without the crash-loop check.
CanRestart_BackoffOnly(st, id, t) ==
    IF id \notin DOMAIN st THEN TRUE
    ELSE After(t, st[id].BackoffUntil)

CanRestart(st, id, t) ==
    IF id \notin DOMAIN st THEN TRUE
    ELSE IF ~IsZero(st[id].CrashLoopSince) THEN FALSE
    ELSE After(t, st[id].BackoffUntil)

RECURSIVE BackoffLoop(_, _, _, _)
BackoffLoop(cfg, i, count, d) ==
    IF i < count /\ d < cfg.MaxBackoff
    THEN BackoffLoop(cfg, i + 1, count, d * cfg.BackoffMultiplier)
    ELSE d

\* The backoff without the clamp to MaxBackoff.
BackoffDuration_Unclamped(cfg, count) ==
    BackoffLoop(cfg, 1, count, cfg.InitialBackoff)

BackoffDuration(cfg, count) ==
    LET d == BackoffLoop(cfg, 1, count, cfg.InitialBackoff)
    IN  IF d > cfg.MaxBackoff THEN cfg.MaxBackoff ELSE d

StableSince(cfg, info, t) ==
    ~IsZero(info.LastRestart) /\ Sub(t, info.LastRestart) > cfg.StabilityPeriod

\* The crash-loop check with the count compared strictly.
CrashLoopCheck_Strict(cfg, info, t) ==
    IF info.RestartCount > cfg.CrashLoopCount
       /\ After(info.LastRestart, t - cfg.CrashLoopWindow)
    THEN [info EXCEPT !.CrashLoopSince = t]
    ELSE info

CrashLoopCheck(cfg, info, t) ==
    IF info.RestartCount >= cfg.CrashLoopCount
       /\ After(info.LastRestart, t - cfg.CrashLoopWindow)
    THEN [info EXCEPT !.CrashLoopSince = t]
    ELSE info

\* RecordRestart without the stability reset.
RecordRestart_NoReset(st, cfg, id, t) ==
    LET info0 == IF id \in DOMAIN st THEN st[id] ELSE NewInfo
        info2 == [info0 EXCEPT !.LastRestart = t,
                               !.RestartCount = info0.RestartCount + 1]
        info3 == [info2 EXCEPT !.BackoffUntil =
                                   t + BackoffDuration(cfg, info2.RestartCount)]
    IN  Put(st, id, CrashLoopCheck(cfg, info3, t))

RecordRestart(st, cfg, id, t) ==
    LET info0 == IF id \in DOMAIN st THEN st[id] ELSE NewInfo
        info1 == IF StableSince(cfg, info0, t)
                 THEN [info0 EXCEPT !.RestartCount = 0, !.CrashLoopSince = ZeroTime]
                 ELSE info0
        info2 == [info1 EXCEPT !.LastRestart = t,
                               !.RestartCount = info1.RestartCount + 1]
        info3 == [info2 EXCEPT !.BackoffUntil =
                                   t + BackoffDuration(cfg, info2.RestartCount)]
    IN  Put(st, id, CrashLoopCheck(cfg, info3, t))

\* RecordSuccess that already resets at exactly the stability period.
RecordSuccess_AtBoundary(st, cfg, id, t) ==
    IF id \notin DOMAIN st THEN st
    ELSE IF Sub(t, st[id].LastRestart) >= cfg.StabilityPeriod
         THEN [st EXCEPT ![id].RestartCount = 0,
                         ![id].CrashLoopSince = ZeroTime,
                         ![id].BackoffUntil = ZeroTime]
         ELSE st

RecordSuccess(st, cfg, id, t) ==
    IF id \notin DOMAIN st THEN st
    ELSE IF Sub(t, st[id].LastRestart) > cfg.StabilityPeriod
         THEN [st EXCEPT ![id].RestartCount = 0,
                         ![id].CrashLoopSince = ZeroTime,
                         ![id].BackoffUntil = ZeroTime]
         ELSE st

IsInCrashLoop(st, id) ==
    IF id \notin DOMAIN st THEN FALSE
    ELSE ~IsZero(st[id].CrashLoopSince)

GetBackoffRemaining(st, id, t) ==
    IF id \notin DOMAIN st THEN 0
    ELSE LET remaining == st[id].BackoffUntil - t
         IN  IF remaining < 0 THEN 0 ELSE remaining

\* ClearCrashLoop that leaves the restart count.
ClearCrashLoop_KeepsCount(st, id) ==
    IF id \in DOMAIN st
    THEN [st EXCEPT ![id].CrashLoopSince = ZeroTime,
                    ![id].BackoffUntil = ZeroTime]
    ELSE st

ClearCrashLoop(st, id) ==
    IF id \in DOMAIN st
    THEN [st EXCEPT ![id].CrashLoopSince = ZeroTime,
                    ![id].RestartCount = 0,
                    ![id].BackoffUntil = ZeroTime]
    ELSE st

----------------------------------------------------------------------------
(* The tracker as a state machine: its callers invoke the operations at    *)
(* any time, the clock advances, agents die, and the supervisor ticks.     *)
(* These actions say nothing about hist and disk; each specification adds  *)
(* what it does with them.                                                 *)

EmptyMap == [k \in {} |-> NewInfo]

Op(name, id) == [op |-> name, id |-> id, pre |-> agents]
NoOp(name) == [op |-> name, id |-> "", pre |-> EmptyMap]

\* The record of id has gone longer than the stability period without a restart.
Stale(id) ==
    /\ id \in DOMAIN agents
    /\ now - agents[id].LastRestart > config.StabilityPeriod

StreakAfterRestart(id) ==
    [streak EXCEPT ![id] = IF Stale(id) THEN 1 ELSE streak[id] + 1]
StreakAfterSuccess(id) ==
    [streak EXCEPT ![id] = IF Stale(id) THEN 0 ELSE streak[id]]
StreakAfterClear(id) ==
    [streak EXCEPT ![id] = 0]

\* Nothing is being dispatched (the tracker's specifications).
SlingIdle ==
    /\ pc = [c \in {} |-> ""]
    /\ call = [c \in {} |-> ""]
    /\ result = [c \in {} |-> ""]
    /\ holders = [k \in {} |-> {}]
    /\ rigStatus = [r \in {} |-> ""]
    /\ beadStatus = [b \in {} |-> ""]
    /\ queued = {}
    /\ sessions = {}

TrackerInit ==
    /\ now \in Delays
    /\ config \in {NewRestartTracker(c) : c \in ConfigInputs}
    /\ agents = EmptyMap
    /\ alive = [id \in AgentIDs |-> TRUE]
    /\ last = NoOp("NewRestartTracker")
    /\ streak = [id \in AgentIDs |-> 0]
    /\ hist = [id \in AgentIDs |-> <<>>]
    /\ disk = [exists |-> FALSE, agents |-> EmptyMap]

\* No goroutine is inside the tracker.
ConcIdle ==
    /\ mu = {}
    /\ gpc = [g \in {} |-> ""]
    /\ gcall = [g \in {} |-> ""]
    /\ glocal = [g \in {} |-> ""]
    /\ lin = EmptyMap

\* No convoy store is in use.
ConvoyIdle ==
    /\ hq = [cv \in {} |-> ""]
    /\ deps = [cv \in {} |-> {}]
    /\ stamp = [b \in {} |-> ""]
    /\ dpc = [d \in {} |-> ""]
    /\ dcall = [d \in {} |-> ""]
    /\ dloc = [d \in {} |-> ""]
    /\ dret = ""
    /\ cinfo = ""

\* No convoy status is being changed.
StatusIdle ==
    /\ launched = {}
    /\ lastReq = ""

\* No queue metadata is written or read.
QueueIdle ==
    /\ qm = ""
    /\ qdesc = <<>>
    /\ qtext = <<>>
    /\ qparsed = ""
    /\ qpc = ""
    /\ qstripped = <<>>

\* No PID file is written or verified.
PidIdle ==
    /\ pidFile = ""
    /\ procs = <<>>
    /\ wrote = <<>>
    /\ wpc = <<>>
    /\ wbuf = <<>>
    /\ vres = ""

\* No heartbeat is written or checked.
HbIdle ==
    /\ hbNow = 0
    /\ hbFiles = <<>>
    /\ hbRes = ""

\* No patrol is scheduled.
PatrolIdle ==
    /\ pNow = 0
    /\ pEnabled = <<>>
    /\ lastRun = <<>>
    /\ active = <<>>
    /\ spawnedAt = <<>>

\* The maintenance patrol is not configured and has not checked.
MaintIdle ==
    /\ mNow = 0
    /\ mConfig = <<>>
    /\ lastMaintenanceRun = 0
    /\ mRuns = <<>>
    /\ mOutcome = ""

\* No shutdown command runs.
ShutdownIdle ==
    /\ sdSessions = <<>>
    /\ sdFlags = <<>>
    /\ sdToStop = <<>>
    /\ sdPC = ""
    /\ sdIdx = 0
    /\ sdRemaining = 0
    /\ sdEsc = {}
    /\ sdMsg = {}
    /\ sdSlept = 0
    /\ sdKills = <<>>

\* No merge-request bead is looked up.
MRIdle ==
    /\ mrIssues = <<>>
    /\ mrRes = <<>>

\* No convoy creation is followed command by command.
CommitIdle ==
    /\ acEnv = ""
    /\ acCall = <<>>
    /\ acPC = ""
    /\ acCmds = <<>>
    /\ acRet = ""

ReloadIdle ==
    /\ rlNow = 0
    /\ rlFile = [kind |-> "", agents |-> EmptyMap]
    /\ rlMem = [nil |-> FALSE, agents |-> EmptyMap]
    /\ rlCli = [pc |-> "", id |-> "", rt |-> [nil |-> FALSE, agents |-> EmptyMap]]
    /\ rlPanic = FALSE
    /\ rlLast = [op |-> "", id |-> "", res |-> ""]
    /\ rlClear = [id |-> "", since |-> ZeroTime, reloaded |-> FALSE]

\* The parts of the daemon other than the one named are left out.
LateIdleBut(part) ==
    /\ part # "pid" => PidIdle
    /\ part # "hb" => HbIdle
    /\ part # "patrol" => PatrolIdle
    /\ part # "maint" => MaintIdle
    /\ part # "shutdown" => ShutdownIdle
    /\ part # "mr" => MRIdle
    /\ part # "ac" => CommitIdle
    /\ part # "rl" => ReloadIdle

LateIdle == LateIdleBut("")

ExtIdle == ConcIdle /\ ConvoyIdle /\ StatusIdle /\ QueueIdle /\ LateIdle

Init == TrackerInit /\ SlingIdle /\ ExtIdle

\* The clock advances by d.
Tick(d) ==
    /\ now + d <= MaxNow
    /\ now' = now + d
    /\ last' = NoOp("Tick")
    /\ UNCHANGED <<config, agents, alive, streak, slingVars>>

MayCount(id) == id \in DOMAIN agents => agents[id].RestartCount < MaxRestarts

CallRecordRestart(id) ==
    /\ MayCount(id)
    /\ agents' = RecordRestart(agents, config, id, now)
    /\ streak' = StreakAfterRestart(id)
    /\ last' = Op("RecordRestart", id)
    /\ UNCHANGED <<now, config, alive, slingVars>>

CallRecordSuccess(id) ==
    /\ agents' = RecordSuccess(agents, config, id, now)
    /\ streak' = StreakAfterSuccess(id)
    /\ last' = Op("RecordSuccess", id)
    /\ UNCHANGED <<now, config, alive, slingVars>>

CallClearCrashLoop(id) ==
    /\ agents' = ClearCrashLoop(agents, id)
    /\ streak' = StreakAfterClear(id)
    /\ last' = Op("ClearCrashLoop", id)
    /\ UNCHANGED <<now, config, alive, slingVars>>

\* An agent's session dies.
AgentDies(id) ==
    /\ alive[id]
    /\ alive' = [alive EXCEPT ![id] = FALSE]
    /\ last' = NoOp("AgentDies")
    /\ UNCHANGED <<now, config, agents, streak, slingVars>>

\* A supervisor tick that records the restart and leaves the respawn out.
SupervisorRespawn_RecordsOnly(id) ==
    /\ ~alive[id]
    /\ CanRestart(agents, id, now)
    /\ MayCount(id)
    /\ agents' = RecordRestart(agents, config, id, now)
    /\ streak' = StreakAfterRestart(id)
    /\ last' = Op("Respawn", id)
    /\ UNCHANGED <<now, config, alive, slingVars>>

\* The supervisor tick, for one agent.  Dead and restartable: the restart is
\* recorded and the session driver respawns the agent.
SupervisorRespawn(id) ==
    /\ ~alive[id]
    /\ CanRestart(agents, id, now)
    /\ MayCount(id)
    /\ agents' = RecordRestart(agents, config, id, now)
    /\ streak' = StreakAfterRestart(id)
    /\ alive' = [alive EXCEPT ![id] = TRUE]
    /\ last' = Op("Respawn", id)
    /\ UNCHANGED <<now, config, slingVars>>

\* Dead and not restartable: the tick leaves the agent alone.
SupervisorHolds(id) ==
    /\ ~alive[id]
    /\ ~CanRestart(agents, id, now)
    /\ last' = Op("Held", id)
    /\ UNCHANGED <<now, config, agents, alive, streak, slingVars>>

\* Alive: the agent is reported healthy.
SupervisorHealthy(id) ==
    /\ alive[id]
    /\ agents' = RecordSuccess(agents, config, id, now)
    /\ streak' = StreakAfterSuccess(id)
    /\ last' = Op("Healthy", id)
    /\ UNCHANGED <<now, config, alive, slingVars>>

RestartOps == {"RecordRestart", "Respawn"}
SuccessOps == {"RecordSuccess", "Healthy"}

----------------------------------------------------------------------------
(* Spec: the tracker on the fine clock.                                    *)

Aside == UNCHANGED <<hist, disk, extVars>>

Next ==
    \/ \E d \in Delays : Tick(d) /\ Aside
    \/ \E id \in AgentIDs : CallRecordRestart(id) /\ Aside
    \/ \E id \in AgentIDs : CallRecordSuccess(id) /\ Aside
    \/ \E id \in AgentIDs : CallClearCrashLoop(id) /\ Aside
    \/ \E id \in AgentIDs : AgentDies(id) /\ Aside
    \/ \E id \in AgentIDs : SupervisorRespawn(id) /\ Aside
    \/ \E id \in AgentIDs : SupervisorHolds(id) /\ Aside
    \/ \E id \in AgentIDs : SupervisorHealthy(id) /\ Aside

Spec == Init /\ [][Next]_vars

----------------------------------------------------------------------------
(* SpecWindow: the tracker on the coarse clock, remembering when the latest *)
(* RecordRestart calls since the last clear were made.                      *)

LastN(seq, n) ==
    IF Len(seq) <= n THEN seq ELSE SubSeq(seq, Len(seq) - n + 1, Len(seq))

HistAfterRestart(id) ==
    hist' = [hist EXCEPT ![id] =
                LastN(Append(@, now), DefaultRestartTrackerConfig.CrashLoopCount)]

HistAfterClear(id) ==
    hist' = [hist EXCEPT ![id] = <<>>]

NextWindow ==
    \/ \E d \in CoarseDelays : Tick(d) /\ UNCHANGED <<hist, disk, extVars>>
    \/ \E id \in AgentIDs : CallRecordRestart(id) /\ HistAfterRestart(id) /\ UNCHANGED <<disk, extVars>>
    \/ \E id \in AgentIDs : CallRecordSuccess(id) /\ UNCHANGED <<hist, disk, extVars>>
    \/ \E id \in AgentIDs : CallClearCrashLoop(id) /\ HistAfterClear(id) /\ UNCHANGED <<disk, extVars>>
    \/ \E id \in AgentIDs : AgentDies(id) /\ UNCHANGED <<hist, disk, extVars>>
    \/ \E id \in AgentIDs : SupervisorRespawn(id) /\ HistAfterRestart(id) /\ UNCHANGED <<disk, extVars>>
    \/ \E id \in AgentIDs : SupervisorHolds(id) /\ UNCHANGED <<hist, disk, extVars>>
    \/ \E id \in AgentIDs : SupervisorHealthy(id) /\ UNCHANGED <<hist, disk, extVars>>

SpecWindow == Init /\ [][NextWindow]_vars

----------------------------------------------------------------------------
(* SpecSupervise: the supervisor alone with the tracker.  The supervisor    *)
(* thread runs its tick loop for as long as the daemon lives and the clock  *)
(* advances, so both are taken weakly fair.  RecordRestart is called by the *)
(* supervisor's respawn only; an operator may clear a crash loop.  A death  *)
(* is left out when the clock's end is too near for the agent's backoff to  *)
(* pass.                                                                     *)

AgentDiesInTime(id) ==
    /\ \E d \in Delays : now + config.MaxBackoff + d < MaxNow
    /\ AgentDies(id)

NextSupervise ==
    \/ \E d \in Delays : Tick(d) /\ Aside
    \/ \E id \in AgentIDs : AgentDiesInTime(id) /\ Aside
    \/ \E id \in AgentIDs : SupervisorRespawn(id) /\ Aside
    \/ \E id \in AgentIDs : SupervisorHolds(id) /\ Aside
    \/ \E id \in AgentIDs : SupervisorHealthy(id) /\ Aside
    \/ \E id \in AgentIDs : CallClearCrashLoop(id) /\ Aside

SuperviseFairness ==
    /\ WF_vars(\E d \in Delays : Tick(d) /\ Aside)
    /\ \A id \in AgentIDs : WF_vars(SupervisorRespawn(id) /\ Aside)

SpecSupervise == Init /\ [][NextSupervise]_vars /\ SuperviseFairness

\* C40: every supervised agent that is dead and not in crash loop is
\* eventually respawned: once its backoff has passed, the supervisor's tick
\* finds CanRestart true, records the restart and respawns the agent.
C40_DeadAgentRespawned ==
    \A id \in AgentIDs :
        (~alive[id] /\ ~IsInCrashLoop(agents, id)) ~> alive[id]

\* The supervisor respawned an agent that had been held in backoff: the
\* backoff recorded at its previous restart has passed.
C40_Witness ==
    \E id \in AgentIDs :
        /\ last.op = "Respawn" /\ last.id = id
        /\ id \in DOMAIN last.pre
        /\ ~IsZero(last.pre[id].BackoffUntil)
        /\ After(now, last.pre[id].BackoffUntil)
        /\ alive[id]
        /\ agents[id].RestartCount = last.pre[id].RestartCount + 1

----------------------------------------------------------------------------
(* SpecPersist: the tracker and its state file.  Save writes the file from  *)
(* memory, Load reads it into memory; the mutators touch memory only.       *)

\* json.MarshalIndent(rt.state) then os.WriteFile; the write may fail.
Save(ok) ==
    /\ disk' = IF ok THEN [exists |-> TRUE, agents |-> agents] ELSE disk
    /\ last' = NoOp(IF ok THEN "Save" ELSE "SaveFailed")
    /\ UNCHANGED <<now, config, agents, alive, streak, hist, slingVars, extVars>>

\* json.Unmarshal into the existing map: the file's entries replace or join
\* those in memory; with no file the state is left alone.
Loaded(st, file) ==
    [ k \in (DOMAIN st) \cup (DOMAIN file) |->
        IF k \in DOMAIN file THEN file[k] ELSE st[k] ]

Load ==
    /\ agents' = IF disk.exists THEN Loaded(agents, disk.agents) ELSE agents
    /\ streak' = [id \in AgentIDs |->
                    IF id \in DOMAIN agents' THEN agents'[id].RestartCount ELSE 0]
    /\ last' = NoOp("Load")
    /\ UNCHANGED <<now, config, alive, hist, disk, slingVars, extVars>>

NextPersist ==
    \/ \E d \in CoarseDelays : Tick(d) /\ UNCHANGED <<hist, disk, extVars>>
    \/ \E id \in AgentIDs : CallRecordRestart(id) /\ UNCHANGED <<hist, disk, extVars>>
    \/ \E id \in AgentIDs : CallRecordSuccess(id) /\ UNCHANGED <<hist, disk, extVars>>
    \/ \E id \in AgentIDs : CallClearCrashLoop(id) /\ UNCHANGED <<hist, disk, extVars>>
    \/ \E ok \in BOOLEAN : Save(ok)
    \/ Load

SpecPersist == Init /\ [][NextPersist]_vars

----------------------------------------------------------------------------
(* Dispatch: executeSling(SlingParams{BeadID, RigName, TownRoot}).          *)
(* Each call takes the per-bead advisory lock, checks the rig, reads the    *)
(* bead, resolves its convoy, writes the queue metadata, starts the session *)
(* and releases the lock as it returns.                                     *)

AlreadySlung == "already being slung"

LockKeys == Towns \X Beads
LockKey(params) == <<params.town, params.bead>>

SlingParams == [bead : Beads, rig : Rigs, town : Towns]

\* The lock of a platform without advisory locks: always granted.
tryAcquireSlingBeadLock_NoOp(hs, key, c) ==
    [ok |-> TRUE, holders |-> [hs EXCEPT ![key] = @ \cup {c}]]

\* The flock is taken without blocking; it is granted only when no one holds it.
tryAcquireSlingBeadLock(hs, key, c) ==
    IF hs[key] = {}
    THEN [ok |-> TRUE, holders |-> [hs EXCEPT ![key] = @ \cup {c}]]
    ELSE [ok |-> FALSE, holders |-> hs]

release(hs, key, c) == [hs EXCEPT ![key] = @ \ {c}]

\* A release on the success path only.
ReleaseOnReturn_SuccessOnly(hs, key, c, err) ==
    IF err = "" THEN [hs EXCEPT ![key] = @ \ {c}] ELSE hs

\* The deferred release: it runs however executeSling returns.
ReleaseOnReturn(hs, key, c, err) == release(hs, key, c)

IsRigParked(rs) == rs.parked

IsRigDocked(rs) == rs.docked

IsRigParkedOrDocked(rs) ==
    IF IsRigParked(rs) THEN [blocked |-> TRUE, reason |-> "parked"]
    ELSE IF ~rs.configLoads THEN [blocked |-> FALSE, reason |-> ""]
    ELSE IF IsRigDocked(rs) THEN [blocked |-> TRUE, reason |-> "docked"]
    ELSE [blocked |-> FALSE, reason |-> ""]

TrackerIdle ==
    /\ now = ZeroTime
    /\ config = DefaultRestartTrackerConfig
    /\ agents = EmptyMap
    /\ alive = [id \in AgentIDs |-> TRUE]
    /\ last = NoOp("NewRestartTracker")
    /\ streak = [id \in AgentIDs |-> 0]
    /\ hist = [id \in AgentIDs |-> <<>>]
    /\ disk = [exists |-> FALSE, agents |-> EmptyMap]

SlingInit ==
    /\ pc = [c \in Calls |-> "idle"]
    /\ call \in [Calls -> SlingParams]
    /\ result = [c \in Calls |-> ""]
    /\ holders = [k \in LockKeys |-> {}]
    /\ rigStatus = [r \in Rigs |->
                      [parked |-> FALSE, docked |-> FALSE, configLoads |-> TRUE]]
    /\ beadStatus = [b \in Beads |-> "open"]
    /\ queued = {}
    /\ sessions = {}

InitSling == TrackerIdle /\ SlingInit /\ ExtIdle

\* executeSling returns err from call c; the deferred release runs.
Return(c, err) ==
    /\ pc' = [pc EXCEPT ![c] = "idle"]
    /\ result' = [result EXCEPT ![c] = err]
    /\ holders' = ReleaseOnReturn(holders, LockKey(call[c]), c, err)

\* A step 1 that marks the bead as queued before it gives up on a held lock.
SlingAcquire_MarksBead(c, params) ==
    /\ pc[c] = "idle"
    /\ call' = [call EXCEPT ![c] = params]
    /\ LET got == tryAcquireSlingBeadLock(holders, LockKey(params), c)
       IN  IF got.ok
           THEN /\ holders' = got.holders
                /\ pc' = [pc EXCEPT ![c] = "checkRig"]
                /\ result' = [result EXCEPT ![c] = ""]
                /\ queued' = queued
           ELSE /\ holders' = got.holders
                /\ pc' = pc
                /\ result' = [result EXCEPT ![c] = AlreadySlung]
                /\ queued' = queued \cup {params.bead}
    /\ UNCHANGED <<rigStatus, beadStatus, sessions, trackerVars>>

\* Step 1: the call begins and tries the lock.
SlingAcquire(c, params) ==
    /\ pc[c] = "idle"
    /\ call' = [call EXCEPT ![c] = params]
    /\ LET got == tryAcquireSlingBeadLock(holders, LockKey(params), c)
       IN  IF got.ok
           THEN /\ holders' = got.holders
                /\ pc' = [pc EXCEPT ![c] = "checkRig"]
                /\ result' = [result EXCEPT ![c] = ""]
           ELSE /\ holders' = got.holders
                /\ pc' = pc
                /\ result' = [result EXCEPT ![c] = AlreadySlung]
    /\ UNCHANGED <<rigStatus, beadStatus, queued, sessions, trackerVars>>

\* Step 2: a parked or docked rig ends the call.
SlingCheckRig(c) ==
    /\ pc[c] = "checkRig"
    /\ LET avail == IsRigParkedOrDocked(rigStatus[call[c].rig])
       IN  IF avail.blocked
           THEN Return(c, "rig " \o avail.reason)
           ELSE /\ pc' = [pc EXCEPT ![c] = "readBead"]
                /\ UNCHANGED <<result, holders>>
    /\ UNCHANGED <<call, rigStatus, beadStatus, queued, sessions, trackerVars>>

\* A step 3 without the closed-bead guard.
SlingReadBead_NoGuard(c) ==
    /\ pc[c] = "readBead"
    /\ pc' = [pc EXCEPT ![c] = "convoy"]
    /\ UNCHANGED <<result, holders>>
    /\ UNCHANGED <<call, rigStatus, beadStatus, queued, sessions, trackerVars>>

\* Step 3: the closed-bead guard.
SlingReadBead(c) ==
    /\ pc[c] = "readBead"
    /\ IF beadStatus[call[c].bead] = "closed"
       THEN Return(c, "bead closed")
       ELSE /\ pc' = [pc EXCEPT ![c] = "convoy"]
            /\ UNCHANGED <<result, holders>>
    /\ UNCHANGED <<call, rigStatus, beadStatus, queued, sessions, trackerVars>>

\* Step 4: the convoy of the bead is looked up.
SlingConvoy(c) ==
    /\ pc[c] = "convoy"
    /\ pc' = [pc EXCEPT ![c] = "writeMeta"]
    /\ UNCHANGED <<call, result, holders, rigStatus, beadStatus, queued, sessions, trackerVars>>

\* Step 5: the queue metadata goes into the bead's description.
SlingWriteMeta(c) ==
    /\ pc[c] = "writeMeta"
    /\ queued' = queued \cup {call[c].bead}
    /\ pc' = [pc EXCEPT ![c] = "startSession"]
    /\ UNCHANGED <<call, result, holders, rigStatus, beadStatus, sessions, trackerVars>>

\* Steps 6 and 7: the session driver starts the session, or fails; the call returns.
SlingStartSession(c, ok) ==
    /\ pc[c] = "startSession"
    /\ sessions' = IF ok THEN sessions \cup {call[c].bead} ELSE sessions
    /\ Return(c, IF ok THEN "" ELSE "session start failed")
    /\ UNCHANGED <<call, rigStatus, beadStatus, queued, trackerVars>>

\* gt rig park / unpark / dock / undock, and a rig whose config comes and goes.
SetRig(r, field, value) ==
    /\ rigStatus[r][field] # value
    /\ rigStatus' = [rigStatus EXCEPT ![r][field] = value]
    /\ UNCHANGED <<pc, call, result, holders, beadStatus, queued, sessions, trackerVars>>

\* A bead is closed or reopened.
SetBead(b, status) ==
    /\ beadStatus[b] # status
    /\ beadStatus' = [beadStatus EXCEPT ![b] = status]
    /\ UNCHANGED <<pc, call, result, holders, rigStatus, queued, sessions, trackerVars>>

SlingAside == UNCHANGED extVars

NextSling ==
    \/ \E c \in Calls, params \in SlingParams : SlingAcquire(c, params) /\ SlingAside
    \/ \E c \in Calls : SlingCheckRig(c) /\ SlingAside
    \/ \E c \in Calls : SlingReadBead(c) /\ SlingAside
    \/ \E c \in Calls : SlingConvoy(c) /\ SlingAside
    \/ \E c \in Calls : SlingWriteMeta(c) /\ SlingAside
    \/ \E c \in Calls, ok \in BOOLEAN : SlingStartSession(c, ok) /\ SlingAside
    \/ \E r \in Rigs, f \in {"parked", "docked", "configLoads"}, v \in BOOLEAN :
           SetRig(r, f, v) /\ SlingAside
    \/ \E b \in Beads, st \in {"open", "closed"} : SetBead(b, st) /\ SlingAside

SpecSling == InitSling /\ [][NextSling]_vars

InProgress(c) == pc[c] # "idle"

\* C1: at most one executeSling call holds the per-bead lock keyed on
\* (town_root, bead_id) at any moment: two dispatches of one bead are never
\* both past lock acquisition.
C1_OneLockHolder ==
    \A key \in LockKeys :
        /\ Cardinality(holders[key]) <= 1
        /\ Cardinality({c \in Calls : InProgress(c) /\ LockKey(call[c]) = key}) <= 1

C1_Witness ==
    \E c1, c2 \in Calls :
        /\ c1 # c2
        /\ InProgress(c1) /\ c1 \in holders[LockKey(call[c1])]
        /\ ~InProgress(c2) /\ result[c2] = AlreadySlung
        /\ LockKey(call[c2]) = LockKey(call[c1])

\* The step in which call c is refused the lock.
Refused(c) ==
    /\ ~InProgress(c)
    /\ pc'[c] = "idle"
    /\ result'[c] = AlreadySlung
    /\ <<call[c], result[c]>> # <<call'[c], result'[c]>>

\* C2: when an executeSling call that took the lock returns, on success or on
\* any failure path, the lock is released: every holder of a lock is a call
\* still in progress on that bead, and a call is refused with "already being
\* slung" only while another call is in progress on the same bead.
C2_LockReleasedOnReturn ==
    [][ /\ \A key \in LockKeys : \A c \in holders'[key] :
               pc'[c] # "idle" /\ LockKey(call'[c]) = key
        /\ \A c \in Calls :
               Refused(c) =>
                   \E o \in Calls \ {c} :
                       InProgress(o) /\ LockKey(call[o]) = LockKey(call'[c]) ]_vars

C2_Witness ==
    \E c1, c2 \in Calls :
        /\ c1 # c2
        /\ ~InProgress(c1) /\ result[c1] = "bead closed"
        /\ InProgress(c2) /\ c2 \in holders[LockKey(call[c2])]
        /\ LockKey(call[c2]) = LockKey(call[c1])

\* Call c begins in this step.
Begins(c) ==
    /\ pc[c] = "idle"
    /\ <<pc[c], call[c], result[c]>> # <<pc'[c], call'[c], result'[c]>>

\* C12: executeSling called for a bead whose lock another dispatch holds fails
\* at once with "already being slung", whatever the state of the rig and of
\* the bead, and changes nothing: no lock taken, no queue metadata, no session.
C12_RefusedBeforeAnything ==
    [][ \A c \in Calls :
          (Begins(c) /\ holders[LockKey(call'[c])] # {}) =>
              /\ result'[c] = AlreadySlung
              /\ pc'[c] = "idle"
              /\ UNCHANGED <<holders, rigStatus, beadStatus, queued, sessions>> ]_vars

\* A call on a closed bead of a parked rig was refused for the lock alone.
C12_Witness ==
    \E c1, c2 \in Calls :
        /\ c1 # c2
        /\ pc[c1] = "checkRig" /\ c1 \in holders[LockKey(call[c1])]
        /\ ~InProgress(c2) /\ result[c2] = AlreadySlung
        /\ LockKey(call[c2]) = LockKey(call[c1])
        /\ beadStatus[call[c2].bead] = "closed"
        /\ rigStatus[call[c2].rig].parked
        /\ call[c2].bead \notin queued \cup sessions

\* gt rig unpark / gt rig undock
Remedy(reason) == IF reason = "parked" THEN "unpark" ELSE "undock"

\* The words of the error for a blocked rig.
RigBlockedError(rig, reason) ==
    <<"rig", rig, "is", reason, "gt", "rig", Remedy(reason), rig>>

Names(text, word) == \E i \in 1..Len(text) : text[i] = word

\* Call c checks its rig in this step.
ChecksRig(c) == pc[c] = "checkRig" /\ pc'[c] # "checkRig"

\* C13: for every rig that is parked or docked, executeSling to that rig
\* returns an error that names the rig and the remedy verb (unpark / undock),
\* and starts no session.
C13_BlockedRigFails ==
    [][ \A c \in Calls :
          LET rs == rigStatus[call[c].rig]
              reason == IF rs.parked THEN "parked" ELSE "docked"
          IN  (ChecksRig(c) /\ (rs.parked \/ rs.docked)) =>
                  /\ pc'[c] = "idle"
                  /\ result'[c] = "rig " \o reason
                  /\ Names(RigBlockedError(call[c].rig, reason), call[c].rig)
                  /\ Names(RigBlockedError(call[c].rig, reason), Remedy(reason))
                  /\ sessions' = sessions ]_vars

\* What the code does for a docked rig whose config does not load: the docked
\* label is never read, and the dispatch goes on to start a session.
C13_DockedRigDispatched ==
    \E c \in Calls :
        /\ pc[c] = "idle" /\ result[c] = ""
        /\ call[c].bead \in sessions
        /\ rigStatus[call[c].rig].docked
        /\ ~rigStatus[call[c].rig].configLoads

\* Call c reads its bead in this step.
ReadsBead(c) == pc[c] = "readBead" /\ pc'[c] # "readBead"

\* C14: a bead whose status is closed is not dispatched: executeSling on it
\* fails the closed-guard check, starts no session and writes no queue
\* metadata, and a repeated call gives the same error.
C14_ClosedBeadNotDispatched ==
    [][ \A c \in Calls :
          (ReadsBead(c) /\ beadStatus[call[c].bead] = "closed") =>
              /\ pc'[c] = "idle"
              /\ result'[c] = "bead closed"
              /\ c \notin holders'[LockKey(call[c])]
              /\ sessions' = sessions
              /\ queued' = queued ]_vars

\* Two calls on one closed bead, one after the other, both failed the guard.
C14_Witness ==
    \E c1, c2 \in Calls :
        /\ c1 # c2
        /\ call[c1] = call[c2]
        /\ ~InProgress(c1) /\ ~InProgress(c2)
        /\ result[c1] = "bead closed" /\ result[c2] = "bead closed"
        /\ beadStatus[call[c1].bead] = "closed"
        /\ call[c1].bead \notin queued \cup sessions

----------------------------------------------------------------------------
(* Properties of the restart tracker.                                      *)

RECURSIVE Pow(_, _)
Pow(b, e) == IF e <= 0 THEN 1 ELSE b * Pow(b, e - 1)

Min(a, b) == IF a <= b THEN a ELSE b

\* C3: CanRestart(id) is true iff the tracker holds no record for id, or the
\* record's crash_loop_since is empty and now >= backoff_until (true at the
\* very instant now = backoff_until).
C3_CanRestartIff ==
    \A id \in AgentIDs :
        CanRestart(agents, id, now) <=>
            \/ id \notin DOMAIN agents
            \/ /\ IsZero(agents[id].CrashLoopSince)
               /\ now >= agents[id].BackoffUntil

\* What the code does at that instant: no backoff remains, and CanRestart is false.
C3_AtBackoffUntil ==
    \E id \in DOMAIN agents :
        /\ IsZero(agents[id].CrashLoopSince)
        /\ now = agents[id].BackoffUntil
        /\ GetBackoffRemaining(agents, id, now) = 0
        /\ ~CanRestart(agents, id, now)

\* The instants at which a later call may read the clock.
LaterTimes(t) == {t + d : d \in Delays \cup {0}}

\* C5: an agent whose crash_loop_since is set is not restarted: CanRestart is
\* false however much time passes after backoff_until, and no supervisor tick
\* records a restart or respawns it while the crash-loop state is set.
C5_CrashLoopBlocksRestart ==
    [][ \A id \in AgentIDs :
          IsInCrashLoop(agents, id) =>
            /\ \A t \in LaterTimes(now) \cup LaterTimes(agents[id].BackoffUntil) :
                   ~CanRestart(agents, id, t)
            /\ ~(last'.op = "Respawn" /\ last'.id = id)
            /\ alive'[id] => alive[id] ]_vars

C5_Witness ==
    \E id \in DOMAIN agents :
        /\ IsInCrashLoop(agents, id)
        /\ ~alive[id]
        /\ now > agents[id].BackoffUntil
        /\ last.op = "Held" /\ last.id = id

DefaultSchedule(n) ==
    IF n <= 5 THEN <<30, 60, 120, 240, 480>>[n] ELSE 600

\* C6: after the n-th consecutive RecordRestart with no reset in between,
\* backoff_until - last_restart = min(initial * multiplier^(n-1), max); with the
\* defaults 30 s, 60 s, 120 s, 240 s, 480 s and 600 s from then on.
C6_BackoffSchedule ==
    \A id \in DOMAIN agents :
        (last.op \in RestartOps /\ last.id = id) =>
            LET n == streak[id]
                backoff == agents[id].BackoffUntil - agents[id].LastRestart
            IN  /\ n >= 1
                /\ backoff = Min(config.InitialBackoff
                                   * Pow(config.BackoffMultiplier, n - 1),
                                 config.MaxBackoff)
                /\ config = DefaultRestartTrackerConfig =>
                       backoff = DefaultSchedule(n)

C6_Witness ==
    \E id \in DOMAIN agents :
        /\ last.op \in RestartOps /\ last.id = id
        /\ config = DefaultRestartTrackerConfig
        /\ streak[id] = 6
        /\ agents[id].BackoffUntil - agents[id].LastRestart = 600

\* The call found a record whose last restart lies more than the stability
\* period back.
RestartedAfterStability(id) ==
    /\ last.op \in RestartOps /\ last.id = id
    /\ id \in DOMAIN last.pre
    /\ now - last.pre[id].LastRestart > config.StabilityPeriod

\* C7: RecordRestart called more than stability_period after last_restart
\* resets the count and crash_loop_since before counting: afterwards
\* restart_count is 1, the backoff is the initial backoff and the agent is not
\* in crash loop.
C7_StabilityReset ==
    \A id \in AgentIDs :
        RestartedAfterStability(id) =>
            /\ agents[id].RestartCount = 1
            /\ agents[id].LastRestart = now
            /\ agents[id].BackoffUntil = now + config.InitialBackoff
            /\ ~IsInCrashLoop(agents, id)

C7_Witness ==
    \E id \in AgentIDs :
        /\ RestartedAfterStability(id)
        /\ last.pre[id].RestartCount >= 2
        /\ IsInCrashLoop(last.pre, id)

\* C8: RecordSuccess changes a record only when now - last_restart >
\* stability_period, and then clears restart count, backoff_until and
\* crash_loop_since; otherwise (an unknown id included) the tracker state is
\* exactly what it was.
C8_RecordSuccessFrame ==
    last.op \in SuccessOps =>
        LET id == last.id
            pre == last.pre
        IN  IF id \in DOMAIN pre
               /\ now - pre[id].LastRestart > config.StabilityPeriod
            THEN agents = [pre EXCEPT ![id] =
                             [ LastRestart    |-> pre[id].LastRestart,
                               RestartCount   |-> 0,
                               BackoffUntil   |-> ZeroTime,
                               CrashLoopSince |-> ZeroTime ]]
            ELSE agents = pre

C8_Witness ==
    /\ last.op \in SuccessOps
    /\ last.id \in DOMAIN last.pre
    /\ IsInCrashLoop(last.pre, last.id)
    /\ agents # last.pre

\* C9: right after ClearCrashLoop(id), IsInCrashLoop(id) is false, CanRestart(id)
\* is true, and the next RecordRestart(id) counts as a first restart
\* (restart_count 1, initial backoff).
C9_ClearCrashLoop ==
    \A id \in AgentIDs :
        (last.op = "ClearCrashLoop" /\ last.id = id) =>
            /\ ~IsInCrashLoop(agents, id)
            /\ CanRestart(agents, id, now)
            /\ \A t \in LaterTimes(now) :
                   LET next == RecordRestart(agents, config, id, t)[id]
                   IN  /\ next.RestartCount = 1
                       /\ next.BackoffUntil = t + config.InitialBackoff

C9_Witness ==
    \E id \in DOMAIN agents :
        /\ last.op = "ClearCrashLoop" /\ last.id = id
        /\ IsInCrashLoop(last.pre, id)
        /\ last.pre[id].BackoffUntil > now

Mutators == RestartOps \cup SuccessOps \cup {"ClearCrashLoop"}

\* C4: with the default configuration, after five RecordRestart calls for one
\* agent that all fall inside one 15-minute window, IsInCrashLoop is true and
\* CanRestart is false.
C4_FiveRestartsInWindow ==
    \A id \in AgentIDs :
        ( /\ config = DefaultRestartTrackerConfig
          /\ last.op \in RestartOps /\ last.id = id
          /\ Len(hist[id]) = 5
          /\ hist[id][5] - hist[id][1] <= config.CrashLoopWindow )
        => /\ IsInCrashLoop(agents, id)
           /\ ~CanRestart(agents, id, now)

C4_Witness ==
    \E id \in AgentIDs :
        /\ config = DefaultRestartTrackerConfig
        /\ last.op \in RestartOps /\ last.id = id
        /\ Len(hist[id]) = 5
        /\ hist[id][1] < hist[id][4]
        /\ hist[id][5] - hist[id][1] <= config.CrashLoopWindow
        /\ ~IsInCrashLoop(last.pre, id)
        /\ IsInCrashLoop(agents, id)

\* The latest RecordRestart marked the agent as crash-looping.
EntersCrashLoop(id) ==
    /\ last.op \in RestartOps /\ last.id = id
    /\ ~IsInCrashLoop(last.pre, id)
    /\ IsInCrashLoop(agents, id)

\* C33: an agent is marked as crash-looping only when its latest
\* crash_loop_count restarts all lie within the last crash_loop_window;
\* restarts older than the window do not count.
C33_OnlyRestartsInWindowCount ==
    \A id \in AgentIDs :
        EntersCrashLoop(id) =>
            LET latest == LastN(hist[id], config.CrashLoopCount)
            IN  /\ Len(latest) = config.CrashLoopCount
                /\ \A i \in 1..Len(latest) : latest[i] > now - config.CrashLoopWindow

\* What holds: the agent is marked when the count reaches crash_loop_count,
\* and the count is reset only by a gap longer than the stability period.
C33_CountAloneDecides ==
    \A id \in AgentIDs :
        /\ EntersCrashLoop(id) => agents[id].RestartCount >= config.CrashLoopCount
        /\ ( /\ last.op \in RestartOps /\ last.id = id
             /\ agents[id].RestartCount >= config.CrashLoopCount )
           => IsInCrashLoop(agents, id)

\* Default configuration: four restarts, then a fifth twenty minutes later,
\* outside the window of fifteen minutes and inside the stability period:
\* the agent is marked as crash-looping.
C33_OldRestartsCounted ==
    \E id \in AgentIDs :
        /\ config = DefaultRestartTrackerConfig
        /\ EntersCrashLoop(id)
        /\ Len(hist[id]) = 5
        /\ now - hist[id][4] > config.CrashLoopWindow
        /\ now - hist[id][4] < config.StabilityPeriod

\* C10: after every completed RecordRestart, RecordSuccess or ClearCrashLoop
\* call, restart_state.json holds the tracker's in-memory state.
C10_PersistedAfterMutation ==
    last.op \in Mutators =>
        agents = (IF disk.exists THEN Loaded(EmptyMap, disk.agents) ELSE EmptyMap)

----------------------------------------------------------------------------
(* SpecConc: goroutines calling the tracker's mutators at once.  Each       *)
(* mutator is rt.mu.Lock(), its body, and the deferred rt.mu.Unlock(); the  *)
(* body reads the record and the clock, then writes the record.             *)

Goroutines == {"g1", "g2", "g3"}

MutatorNames == {"RecordRestart", "RecordSuccess", "ClearCrashLoop"}

\* A mutex that excludes no one.
Lock_NoExclusion(m, g) == [ok |-> TRUE, mu |-> m \cup {g}]

\* rt.mu.Lock(): granted when no goroutine holds the mutex.
Lock(m, g) ==
    IF m = {} THEN [ok |-> TRUE, mu |-> {g}] ELSE [ok |-> FALSE, mu |-> m]

\* rt.mu.Unlock()
Unlock(m, g) == m \ {g}

\* The body of the mutator c, run on the map st at clock reading t.
Apply(c, st, cfg, t) ==
    CASE c.op = "RecordRestart"  -> RecordRestart(st, cfg, c.id, t)
      [] c.op = "RecordSuccess"  -> RecordSuccess(st, cfg, c.id, t)
      [] c.op = "ClearCrashLoop" -> ClearCrashLoop(st, c.id)

\* The body's writes go to the record of its agent id.
Commit(st, res, id) == IF id \in DOMAIN res THEN Put(st, id, res[id]) ELSE st

NoCall == [op |-> "", id |-> ""]
NoLocal == [st |-> EmptyMap, t |-> ZeroTime]

ConcInit ==
    /\ mu = {}
    /\ gpc = [g \in Goroutines |-> "idle"]
    /\ gcall = [g \in Goroutines |-> NoCall]
    /\ glocal = [g \in Goroutines |-> NoLocal]
    /\ lin = EmptyMap

InitConc ==
    TrackerInit /\ SlingIdle /\ ConcInit /\ ConvoyIdle /\ StatusIdle /\ QueueIdle /\ LateIdle

ConcAside == UNCHANGED <<convoyVars, statusVars, queueVars, lateVars>>

\* RecordRestart calls that have been made and have not yet counted.
PendingRestarts(id) ==
    Cardinality({g \in Goroutines :
                    /\ gcall[g] = [op |-> "RecordRestart", id |-> id]
                    /\ gpc[g] \in {"lock", "read"}})

\* Goroutine g calls a mutator and reaches its rt.mu.Lock().
GoCall(g, op, id) ==
    /\ gpc[g] = "idle"
    /\ op = "RecordRestart" =>
           (IF id \in DOMAIN lin THEN lin[id].RestartCount ELSE 0)
               + PendingRestarts(id) < MaxRestarts
    /\ gcall' = [gcall EXCEPT ![g] = [op |-> op, id |-> id]]
    /\ gpc' = [gpc EXCEPT ![g] = "lock"]
    /\ UNCHANGED <<mu, glocal, lin, trackerVars, slingVars>>

\* rt.mu.Lock() returns.
GoLock(g) ==
    /\ gpc[g] = "lock"
    /\ Lock(mu, g).ok
    /\ mu' = Lock(mu, g).mu
    /\ gpc' = [gpc EXCEPT ![g] = "read"]
    /\ UNCHANGED <<gcall, glocal, lin, trackerVars, slingVars>>

\* The body reads the clock and the record.  This is where the call takes
\* its place in the sequential order.
GoRead(g) ==
    /\ gpc[g] = "read"
    /\ glocal' = [glocal EXCEPT ![g] = [st |-> agents, t |-> now]]
    /\ lin' = Apply(gcall[g], lin, config, now)
    /\ gpc' = [gpc EXCEPT ![g] = "write"]
    /\ UNCHANGED <<mu, gcall, trackerVars, slingVars>>

\* The body writes the record it computed from what it read.
GoWrite(g) ==
    /\ gpc[g] = "write"
    /\ agents' = Commit(agents,
                        Apply(gcall[g], glocal[g].st, config, glocal[g].t),
                        gcall[g].id)
    /\ last' = [op |-> gcall[g].op, id |-> gcall[g].id, pre |-> glocal[g].st]
    /\ gpc' = [gpc EXCEPT ![g] = "unlock"]
    /\ UNCHANGED <<mu, gcall, glocal, lin, now, config, alive, streak, hist, disk,
                   slingVars>>

\* The deferred rt.mu.Unlock() runs and the call returns.
GoUnlock(g) ==
    /\ gpc[g] = "unlock"
    /\ mu' = Unlock(mu, g)
    /\ gpc' = [gpc EXCEPT ![g] = "idle"]
    /\ gcall' = [gcall EXCEPT ![g] = NoCall]
    /\ glocal' = [glocal EXCEPT ![g] = NoLocal]
    /\ UNCHANGED <<lin, trackerVars, slingVars>>

NextConc ==
    \/ \E d \in CoarseDelays : Tick(d) /\ UNCHANGED <<hist, disk, extVars>>
    \/ \E g \in Goroutines, op \in MutatorNames, id \in AgentIDs :
           GoCall(g, op, id) /\ ConcAside
    \/ \E g \in Goroutines : GoLock(g) /\ ConcAside
    \/ \E g \in Goroutines : GoRead(g) /\ ConcAside
    \/ \E g \in Goroutines : GoWrite(g) /\ ConcAside
    \/ \E g \in Goroutines : GoUnlock(g) /\ ConcAside

SpecConc == InitConc /\ [][NextConc]_vars

\* C11: concurrent RecordRestart, RecordSuccess and ClearCrashLoop calls on one
\* agent id are linearizable: whenever no call is inside the tracker, the map
\* is what the same calls produce when run one after another in the order in
\* which they took the mutex, each at the clock reading it made (so k
\* overlapping RecordRestart calls raise restart_count by exactly k).
C11_Linearizable ==
    (\A g \in Goroutines : gpc[g] # "write") => agents = lin

\* Three RecordRestart calls overlapped; the last of them has just written.
C11_Witness ==
    \E g \in Goroutines :
        /\ gpc[g] = "unlock"
        /\ gcall[g].op = "RecordRestart"
        /\ \A o \in Goroutines \ {g} : gpc[o] = "lock"
        /\ \E id \in DOMAIN agents :
               /\ agents[id].RestartCount = 3
               /\ agents = lin

----------------------------------------------------------------------------
(* The convoy manager (internal/cmd/sling_convoy.go).  A convoy is a bead   *)
(* of type convoy in the town store; it tracks work beads through tracks    *)
(* dependencies.  Texts are sequences of words, and a bead id is a sequence *)
(* too, so that one id can be the beginning of another.                     *)

MaxBatch == 2           \* the longest list of beads given to a batch dispatch

ConvoyIDs == {"hq-cv-aaaaa", "hq-cv-bbbbb", "hq-cv-ccccc"}

gt1  == <<"gt-", "1">>
gt12 == <<"gt-", "1", "2">>
WorkBeads == {gt1, gt12}

Dispatchers == {"d1", "d2"}

\* strings.Contains
Contains(text, pattern) ==
    \E i \in 0..(Len(text) - Len(pattern)) :
        SubSeq(text, i + 1, i + Len(pattern)) = pattern

MergeLine(mergeStrategy) ==
    IF mergeStrategy # "" THEN <<"\nMerge: ", mergeStrategy>> ELSE <<>>

\* fmt.Sprintf("Auto-created convoy tracking %s", beadID)
AutoDescription(beadID, mergeStrategy) ==
    <<"Auto-created convoy ", "tracking ">> \o beadID \o MergeLine(mergeStrategy)

\* fmt.Sprintf("Auto-created convoy tracking %d beads", len(beadIDs))
BatchDescription(n, mergeStrategy) ==
    <<"Auto-created convoy ", "tracking ", ToString(n), " beads">>
        \o MergeLine(mergeStrategy)

\* The merge strategy carried by a convoy description.
parseConvoyMergeStrategy(desc) ==
    IF \E i \in 1..(Len(desc) - 1) : desc[i] = "\nMerge: "
    THEN desc[(CHOOSE i \in 1..(Len(desc) - 1) : desc[i] = "\nMerge: ") + 1]
    ELSE ""

NoRecord == [status |-> "none", desc |-> <<>>, owned |-> FALSE]

\* The convoy bead has a record in the town store.
Present(cv) == hq[cv].status \in {"open", "closed"}

\* The targets of tracks dependencies: the raw bead id, or
\* external:<prefix>:<id>.
RawRef(beadID) == [kind |-> "raw", prefix |-> "", id |-> beadID]
ExternalRef(prefix, beadID) == [kind |-> "external", prefix |-> prefix, id |-> beadID]

\* bd dep list <convoy> --direction=down --type=tracks, matched against beadID.
convoyTracksBead(cv, beadID) ==
    \E t \in deps[cv] :
        \/ t.kind = "raw" /\ t.id = beadID
        \/ t.kind = "external" /\ t.id = beadID

\* bd dep list <bead> --direction=up --type=tracks: the convoys tracking the
\* bead, each with the status the rig's database has for it.  A convoy deleted
\* from the town store is still listed, as open.  Across a routing gap the
\* query finds nothing.
TrackersUp(beadID, routed) ==
    IF routed
    THEN {cv \in ConvoyIDs :
            /\ convoyTracksBead(cv, beadID)
            /\ hq[cv].status \in {"open", "deleted"}}
    ELSE {}

\* findConvoyByDescription that looks at descriptions only.
findConvoyByDescription_NoDeps(beadID) ==
    {cv \in ConvoyIDs :
        /\ hq[cv].status = "open"
        /\ Contains(hq[cv].desc, <<"tracking ">> \o beadID)}

\* The convoys findConvoyByDescription may return (none: it returns "").
findConvoyByDescription(beadID) ==
    LET open == {cv \in ConvoyIDs : hq[cv].status = "open"}
        byDescription ==
            {cv \in open : Contains(hq[cv].desc, <<"tracking ">> \o beadID)}
    IN  IF byDescription # {} THEN byDescription
        ELSE {cv \in open : convoyTracksBead(cv, beadID)}

\* The convoys isTrackedByConvoy may return (none: it returns "").
isTrackedByConvoy(beadID, routed) ==
    IF TrackersUp(beadID, routed) # {}
    THEN TrackersUp(beadID, routed)
    ELSE findConvoyByDescription(beadID)

\* The values a lookup may return.
Returned(found) == IF found = {} THEN {""} ELSE found

\* The phrases by which getConvoyInfoForIssue knows a missing issue, and what
\* bd show writes to stderr for one.
NotFoundPhrases == {"not found", "Issue not found", "no issue found"}
NotFoundMessages(cv) ==
    { <<"Error: ", "Issue not found", ": ", cv>>,
      <<"Error: ", "no issue found", " matching ", cv>>,
      <<"Error: resolving ", cv, ": ", "not found">> }

\* bd show <convoy> --json: what the store answers.
BdShow(cv) ==
    IF Present(cv)
    THEN {[err |-> FALSE, stderr |-> <<>>, items |-> <<hq[cv]>>]}
    ELSE {[err |-> TRUE, stderr |-> m, items |-> <<>>] : m \in NotFoundMessages(cv)}

NilInfo == [ID |-> "", Owned |-> FALSE, MergeStrategy |-> ""]
BasicInfo(convoyID) == [ID |-> convoyID, Owned |-> FALSE, MergeStrategy |-> ""]

\* getConvoyInfoForIssue that takes every failed show for a passing error.
getConvoyInfoForIssue_NoPhantomCheck(convoyID, show) ==
    IF convoyID = "" THEN NilInfo
    ELSE IF show.err THEN BasicInfo(convoyID)
    ELSE IF Len(show.items) = 0 THEN BasicInfo(convoyID)
    ELSE [ID |-> convoyID, Owned |-> show.items[1].owned,
          MergeStrategy |-> parseConvoyMergeStrategy(show.items[1].desc)]

\* getConvoyInfoForIssue, given what isTrackedByConvoy returned and what bd
\* show answered.  NilInfo is the nil result.
getConvoyInfoForIssue(convoyID, show) ==
    IF convoyID = "" THEN NilInfo
    ELSE IF show.err
         THEN IF \E m \in NotFoundPhrases : Contains(show.stderr, <<m>>)
              THEN NilInfo
              ELSE BasicInfo(convoyID)
    ELSE IF Len(show.items) = 0 THEN BasicInfo(convoyID)
    ELSE [ID |-> convoyID, Owned |-> show.items[1].owned,
          MergeStrategy |-> parseConvoyMergeStrategy(show.items[1].desc)]

\* ConvoyInfo.IsOwnedDirect
IsOwnedDirect(c) == c # NilInfo /\ c.Owned /\ c.MergeStrategy = "direct"

\* How a dispatch wants its convoy: owned or not, and the merge strategy.
Ownerships == {[owned |-> FALSE, merge |-> ""], [owned |-> TRUE, merge |-> "direct"]}

RECURSIVE Distinct(_)
Distinct(seq) ==
    \/ Len(seq) <= 1
    \/ /\ \A i \in 2..Len(seq) : seq[i] # seq[1]
       /\ Distinct(Tail(seq))

BeadLists(n) == UNION {[1..k -> WorkBeads] : k \in 0..n}

DispatchInputs(ownerships) ==
    {[kind |-> "single", beads |-> <<b>>, owned |-> o.owned, merge |-> o.merge] :
        b \in WorkBeads, o \in ownerships}
    \cup
    {[kind |-> "batch", beads |-> bs, owned |-> o.owned, merge |-> o.merge] :
        bs \in {l \in BeadLists(MaxBatch) : Distinct(l)}, o \in ownerships}

PlainOwnership == {[owned |-> FALSE, merge |-> ""]}

NoDispatch == [kind |-> "", beads |-> <<>>, owned |-> FALSE, merge |-> ""]
NoLocals == [convoy |-> "", i |-> 0, tracked |-> <<>>, outs |-> <<>>]
NoInfo == [bead |-> <<>>, found |-> "", info |-> NilInfo, flow |-> ""]

\* The town store as dispatch may find it: empty, or holding a convoy made by
\* gt convoy create that tracks gt-12 through an external reference.
ConvoyStores ==
    { [store |-> [cv \in ConvoyIDs |-> NoRecord],
       deps  |-> [cv \in ConvoyIDs |-> {}]],
      [store |-> [cv \in ConvoyIDs |->
                    IF cv = "hq-cv-aaaaa"
                    THEN [status |-> "open", desc |-> <<"Sprint">>, owned |-> FALSE]
                    ELSE NoRecord],
       deps  |-> [cv \in ConvoyIDs |->
                    IF cv = "hq-cv-aaaaa" THEN {ExternalRef("gt", gt12)} ELSE {}]] }

ConvoyInit ==
    /\ \E st \in ConvoyStores : hq = st.store /\ deps = st.deps
    /\ stamp = [b \in WorkBeads |-> ""]
    /\ dpc = [d \in Dispatchers |-> "idle"]
    /\ dcall = [d \in Dispatchers |-> NoDispatch]
    /\ dloc = [d \in Dispatchers |-> NoLocals]
    /\ dret = ""
    /\ cinfo = NoInfo

\* In SpecConvoy the dispatch locks are those of the work beads.
ConvoySlingInit ==
    /\ pc = [c \in {} |-> ""]
    /\ call = [c \in {} |-> ""]
    /\ result = [c \in {} |-> ""]
    /\ holders = [k \in Towns \X WorkBeads |-> {}]
    /\ rigStatus = [r \in {} |-> ""]
    /\ beadStatus = [b \in {} |-> ""]
    /\ queued = {}
    /\ sessions = {}

InitConvoy ==
    /\ TrackerIdle /\ ConvoySlingInit /\ ConcIdle /\ ConvoyInit /\ StatusIdle /\ QueueIdle
    /\ LateIdle

KeysOf(p) == {<<t, p.beads[i]>> : t \in Towns, i \in 1..Len(p.beads)}

\* The dispatch of d returns: the locks it holds are released, and the beads
\* it got a convoy for are stamped with the convoy id.
DReturn(d, err, convoy, tracked) ==
    /\ dpc' = [dpc EXCEPT ![d] = "idle"]
    /\ dret' = err
    /\ dcall' = [dcall EXCEPT ![d] = NoDispatch]
    /\ dloc' = [dloc EXCEPT ![d] = NoLocals]
    /\ holders' = [k \in DOMAIN holders |-> holders[k] \ {d}]
    /\ stamp' = [b \in WorkBeads |->
                   IF err = "" /\ convoy # "" /\ \E i \in 1..Len(tracked) : tracked[i] = b
                   THEN convoy ELSE stamp[b]]

\* Step 1 of a dispatch: the locks of its beads, all or none.
DAcquire(d, p) ==
    /\ dpc[d] = "idle"
    /\ IF \A k \in KeysOf(p) : tryAcquireSlingBeadLock(holders, k, d).ok
       THEN /\ holders' = [k \in DOMAIN holders |->
                             IF k \in KeysOf(p) THEN holders[k] \cup {d} ELSE holders[k]]
            /\ dpc' = [dpc EXCEPT ![d] = IF p.kind = "single" THEN "resolve" ELSE "check"]
            /\ dcall' = [dcall EXCEPT ![d] = p]
            /\ dret' = ""
       ELSE /\ holders' = holders
            /\ dpc' = dpc
            /\ dcall' = dcall
            /\ dret' = AlreadySlung
    /\ UNCHANGED <<hq, deps, stamp, dloc, cinfo>>

\* Step 4 of a single dispatch: the fast path, then the resolve path; an
\* untracked bead goes on to get an auto-convoy.
DResolve(d, routed) ==
    /\ dpc[d] = "resolve"
    /\ LET bead == dcall[d].beads[1]
       IN  IF stamp[bead] # ""
           THEN DReturn(d, "", stamp[bead], <<bead>>)
           ELSE \E found \in Returned(isTrackedByConvoy(bead, routed)) :
                   IF found # ""
                   THEN DReturn(d, "", found, <<bead>>)
                   ELSE /\ dpc' = [dpc EXCEPT ![d] = "create"]
                        /\ UNCHANGED <<dret, dcall, dloc, holders, stamp>>
    /\ UNCHANGED <<hq, deps, cinfo>>

\* Unused convoy ids; bd create fails on an id that is taken.
FreshIDs == {cv \in ConvoyIDs : hq[cv].status = "none"}

\* fmt.Sprintf("hq-cv-%s", slingGenerateShortID()): a random id.  Unused ids
\* are interchangeable, so one of them stands for all.
NewConvoyIDs == IF FreshIDs = {} THEN ConvoyIDs ELSE {CHOOSE cv \in FreshIDs : TRUE}

\* createAutoConvoy up to bd create.
DCreate(d, flagLikeTitle, id, ok) ==
    /\ dpc[d] = "create"
    /\ ok => id \in FreshIDs
    /\ IF flagLikeTitle
       THEN /\ DReturn(d, "refusing to create convoy", "", <<>>)
            /\ hq' = hq
       ELSE IF ~ok
       THEN /\ DReturn(d, "creating convoy", "", <<>>)
            /\ hq' = hq
       ELSE /\ hq' = [hq EXCEPT ![id] =
                        [status |-> "open",
                         desc |-> AutoDescription(dcall[d].beads[1], dcall[d].merge),
                         owned |-> dcall[d].owned]]
            /\ dloc' = [dloc EXCEPT ![d].convoy = id]
            /\ dpc' = [dpc EXCEPT ![d] = "depAdd"]
            /\ UNCHANGED <<dret, dcall, holders, stamp>>
    /\ UNCHANGED <<deps, cinfo>>

\* createAutoConvoy that leaves the convoy as it is when the dep add fails.
createAutoConvoyDepAdd_NoClose(d, ok) ==
    /\ dpc[d] = "depAdd"
    /\ LET cv == dloc[d].convoy
           bead == dcall[d].beads[1]
       IN  IF ok
           THEN /\ deps' = [deps EXCEPT ![cv] = @ \cup {RawRef(bead)}]
                /\ hq' = hq
                /\ DReturn(d, "", cv, <<bead>>)
           ELSE /\ deps' = deps
                /\ hq' = hq
                /\ DReturn(d, "adding tracking relation", "", <<>>)
    /\ UNCHANGED cinfo

\* createAutoConvoy from bd dep add on: on failure the convoy just created is
\* closed and the error returned.
createAutoConvoyDepAdd(d, ok) ==
    /\ dpc[d] = "depAdd"
    /\ LET cv == dloc[d].convoy
           bead == dcall[d].beads[1]
       IN  IF ok
           THEN /\ deps' = [deps EXCEPT ![cv] = @ \cup {RawRef(bead)}]
                /\ hq' = hq
                /\ DReturn(d, "", cv, <<bead>>)
           ELSE /\ deps' = deps
                /\ hq' = [hq EXCEPT ![cv].status = "closed"]
                /\ DReturn(d, "adding tracking relation", "", <<>>)
    /\ UNCHANGED cinfo

\* A batch dispatch first looks for a bead of its list that a convoy already
\* tracks; one such bead is a convoy conflict.
DCheck(d, routed) ==
    /\ dpc[d] = "check"
    /\ LET beads == dcall[d].beads
       IN  IF \E i \in 1..Len(beads) : isTrackedByConvoy(beads[i], routed) # {}
           THEN DReturn(d, "convoy conflict", "", <<>>)
           ELSE /\ dpc' = [dpc EXCEPT ![d] = "batchCreate"]
                /\ UNCHANGED <<dret, dcall, dloc, holders, stamp>>
    /\ UNCHANGED <<hq, deps, cinfo>>

\* createBatchConvoy up to bd create.
DBatchCreate(d, id, ok) ==
    /\ dpc[d] = "batchCreate"
    /\ ok => id \in FreshIDs
    /\ IF Len(dcall[d].beads) = 0
       THEN /\ DReturn(d, "no beads to track", "", <<>>)
            /\ hq' = hq
       ELSE IF ~ok
       THEN /\ DReturn(d, "creating batch convoy", "", <<>>)
            /\ hq' = hq
       ELSE /\ hq' = [hq EXCEPT ![id] =
                        [status |-> "open",
                         desc |-> BatchDescription(Len(dcall[d].beads), dcall[d].merge),
                         owned |-> dcall[d].owned]]
            /\ dloc' = [dloc EXCEPT ![d] =
                          [convoy |-> id, i |-> 1, tracked |-> <<>>, outs |-> <<>>]]
            /\ dpc' = [dpc EXCEPT ![d] = "batchDepAdd"]
            /\ UNCHANGED <<dret, dcall, holders, stamp>>
    /\ UNCHANGED <<deps, cinfo>>

\* A loop body that records every bead as tracked.
createBatchConvoyDepAdd_TracksAll(d, ok) ==
    /\ dpc[d] = "batchDepAdd"
    /\ dloc[d].i <= Len(dcall[d].beads)
    /\ LET cv == dloc[d].convoy
           beadID == dcall[d].beads[dloc[d].i]
       IN  /\ deps' = IF ok THEN [deps EXCEPT ![cv] = @ \cup {RawRef(beadID)}] ELSE deps
           /\ dloc' = [dloc EXCEPT ![d].i = @ + 1,
                                   ![d].outs = Append(@, ok),
                                   ![d].tracked = Append(@, beadID)]
    /\ UNCHANGED <<hq, stamp, dpc, dcall, dret, cinfo, holders>>

\* createBatchConvoy, one turn of its loop: bd dep add for the next bead; the
\* bead joins the tracked list only when the dep add succeeded.
createBatchConvoyDepAdd(d, ok) ==
    /\ dpc[d] = "batchDepAdd"
    /\ dloc[d].i <= Len(dcall[d].beads)
    /\ LET cv == dloc[d].convoy
           beadID == dcall[d].beads[dloc[d].i]
       IN  /\ deps' = IF ok THEN [deps EXCEPT ![cv] = @ \cup {RawRef(beadID)}] ELSE deps
           /\ dloc' = [dloc EXCEPT ![d].i = @ + 1,
                                   ![d].outs = Append(@, ok),
                                   ![d].tracked = IF ok THEN Append(@, beadID) ELSE @]
    /\ UNCHANGED <<hq, stamp, dpc, dcall, dret, cinfo, holders>>

\* createBatchConvoy returns the convoy id and the tracked list.
createBatchConvoyReturn(d) ==
    /\ dpc[d] = "batchDepAdd"
    /\ dloc[d].i > Len(dcall[d].beads)
    /\ DReturn(d, "", dloc[d].convoy, dloc[d].tracked)
    /\ UNCHANGED <<hq, deps, cinfo>>

\* gt convoy close: an open convoy is closed.
CloseConvoy(cv) ==
    /\ hq[cv].status = "open"
    /\ hq' = [hq EXCEPT ![cv].status = "closed"]
    /\ UNCHANGED <<deps, stamp, dpc, dcall, dloc, dret, cinfo, holders>>

\* The convoy bead is deleted from the town store; the rigs keep their
\* tracks dependencies on it.
DeleteConvoy(cv) ==
    /\ Present(cv)
    /\ deps[cv] # {}
    /\ hq' = [hq EXCEPT ![cv] = [NoRecord EXCEPT !.status = "deleted"]]
    /\ UNCHANGED <<deps, stamp, dpc, dcall, dloc, dret, cinfo, holders>>

\* The caller of getConvoyInfoForIssue: with an owned convoy of strategy
\* direct the merge pipeline is skipped, otherwise the bead takes the
\* merge-request flow.
ConvoyInfoQuery(beadID, routed) ==
    /\ \E found \in Returned(isTrackedByConvoy(beadID, routed)) :
       \E show \in (IF found = "" THEN {[err |-> FALSE, stderr |-> <<>>, items |-> <<>>]}
                                 ELSE BdShow(found)) :
          LET ci == getConvoyInfoForIssue(found, show)
          IN  cinfo' = [bead |-> beadID, found |-> found, info |-> ci,
                        flow |-> IF IsOwnedDirect(ci) THEN "direct" ELSE "mr"]
    /\ UNCHANGED <<hq, deps, stamp, dpc, dcall, dloc, dret, holders>>

ConvoyAside ==
    UNCHANGED <<trackerVars, concVars, statusVars, queueVars, lateVars,
                pc, call, result, rigStatus, beadStatus, queued, sessions>>

NextConvoy ==
    \/ \E d \in Dispatchers, p \in DispatchInputs(PlainOwnership) :
           DAcquire(d, p) /\ ConvoyAside
    \/ \E d \in Dispatchers, routed \in BOOLEAN : DResolve(d, routed) /\ ConvoyAside
    \/ \E d \in Dispatchers, flagLike \in BOOLEAN, id \in NewConvoyIDs, ok \in BOOLEAN :
           DCreate(d, flagLike, id, ok) /\ ConvoyAside
    \/ \E d \in Dispatchers, ok \in BOOLEAN : createAutoConvoyDepAdd(d, ok) /\ ConvoyAside
    \/ \E d \in Dispatchers, routed \in BOOLEAN : DCheck(d, routed) /\ ConvoyAside
    \/ \E d \in Dispatchers, id \in NewConvoyIDs, ok \in BOOLEAN :
           DBatchCreate(d, id, ok) /\ ConvoyAside
    \/ \E d \in Dispatchers, ok \in BOOLEAN : createBatchConvoyDepAdd(d, ok) /\ ConvoyAside
    \/ \E d \in Dispatchers : createBatchConvoyReturn(d) /\ ConvoyAside
    \/ \E cv \in ConvoyIDs : CloseConvoy(cv) /\ ConvoyAside

SpecConvoy == InitConvoy /\ [][NextConvoy]_vars

\* The open convoys that track the bead.
OpenTrackers(beadID) ==
    {cv \in ConvoyIDs : hq[cv].status = "open" /\ convoyTracksBead(cv, beadID)}

\* Dispatcher d leaves the resolve step with the convoy that
\* isTrackedByConvoy returned for its bead.
ResolvedTo(d, bead, cv) ==
    /\ dpc[d] = "resolve" /\ dpc'[d] = "idle"
    /\ dcall[d].beads[1] = bead
    /\ stamp[bead] = "" /\ stamp'[bead] = cv /\ cv # ""

\* C34: the convoy that isTrackedByConvoy returns for a bead is open and
\* tracks that very bead, never only a bead of another id.
C34_ReturnsTrackerOfExactBead ==
    [][\A d \in Dispatchers, bead \in WorkBeads, cv \in ConvoyIDs :
          ResolvedTo(d, bead, cv) =>
              hq[cv].status = "open" /\ convoyTracksBead(cv, bead)]_vars

\* For gt-12, whose id is the beginning of no other id, the law holds.
C34_ExactForLongestId ==
    [][\A d \in Dispatchers, cv \in ConvoyIDs :
          ResolvedTo(d, gt12, cv) =>
              hq[cv].status = "open" /\ convoyTracksBead(cv, gt12)]_vars

\* gt-1 carries the convoy of gt-12: the description "tracking gt-12"
\* contains "tracking gt-1", and the convoy does not track gt-1.
C34_PrefixIdMatched ==
    \E cv \in ConvoyIDs :
        /\ stamp[gt1] = cv
        /\ hq[cv].status = "open"
        /\ Contains(hq[cv].desc, <<"tracking ">> \o gt12)
        /\ convoyTracksBead(cv, gt12)
        /\ ~convoyTracksBead(cv, gt1)
        /\ \A d \in Dispatchers : dpc[d] = "idle"

\* C36: createBatchConvoy leaves no open convoy that tracks nothing: when
\* every dep add has failed, the convoy is closed or the call returns an
\* error.
C36_NoOpenEmptyBatchConvoy ==
    [][\A d \in Dispatchers :
          (dpc[d] = "batchDepAdd" /\ dpc'[d] = "idle" /\ deps'[dloc[d].convoy] = {})
          => (hq'[dloc[d].convoy].status = "closed" \/ dret' # "")]_vars

\* A batch call whose create failed returns the error and leaves no convoy.
C36_FailedCreateLeavesNothing ==
    [][\A d \in Dispatchers :
          (dpc[d] = "batchCreate" /\ dpc'[d] = "idle")
          => (dret' # "" /\ hq' = hq /\ deps' = deps)]_vars

\* A batch of two beads has returned without error: both dep adds failed,
\* the convoy is open and tracks nothing, and no bead is stamped with it.
C36_OpenOrphanReturned ==
    /\ dret = ""
    /\ \A d \in Dispatchers : dpc[d] = "idle"
    /\ \E cv \in ConvoyIDs :
          /\ hq[cv].status = "open"
          /\ hq[cv].desc = BatchDescription(2, "")
          /\ deps[cv] = {}
          /\ \A bead \in WorkBeads : stamp[bead] # cv

RECURSIVE Succeeded(_, _)
Succeeded(beadIDs, outs) ==
    IF beadIDs = <<>> THEN <<>>
    ELSE IF Head(outs)
         THEN <<Head(beadIDs)>> \o Succeeded(Tail(beadIDs), Tail(outs))
         ELSE Succeeded(Tail(beadIDs), Tail(outs))

\* C18: when createBatchConvoy returns, its tracked list is the input list
\* without the beads whose dep add failed, in input order; these are the beads
\* the convoy tracks, and the only ones stamped with the convoy.
C18_TrackedAreTheSucceeded ==
    [][\A d \in Dispatchers :
          (dpc[d] = "batchDepAdd" /\ dpc'[d] = "idle")
          => /\ Len(dloc[d].outs) = Len(dcall[d].beads)
             /\ dloc[d].tracked = Succeeded(dcall[d].beads, dloc[d].outs)
             /\ \A i \in 1..Len(dcall[d].beads) :
                   dloc[d].outs[i] <=> RawRef(dcall[d].beads[i]) \in deps[dloc[d].convoy]
             /\ \A i \in 1..Len(dcall[d].beads) :
                   stamp'[dcall[d].beads[i]] =
                       IF dloc[d].outs[i] THEN dloc[d].convoy
                                          ELSE stamp[dcall[d].beads[i]]]_vars

\* A batch of gt-1 and gt-12 has returned with the dep add of gt-12 failed:
\* its convoy tracks gt-1 alone and gt-1 alone is stamped.
C18_Witness ==
    /\ \A d \in Dispatchers : dpc[d] = "idle"
    /\ dret = ""
    /\ \E cv \in ConvoyIDs :
          /\ hq[cv].desc = BatchDescription(2, "")
          /\ hq[cv].status = "open"
          /\ deps[cv] = {RawRef(gt1)}
          /\ stamp[gt1] = cv
          /\ stamp[gt12] = ""

----------------------------------------------------------------------------
(* SpecInfo: convoys made by single dispatches, deleted from the town store *)
(* while the rigs keep their tracks dependencies, and asked for by          *)
(* getConvoyInfoForIssue.                                                   *)

SingleInputs == {p \in DispatchInputs(Ownerships) : p.kind = "single"}

InfoDispatcher == "d1"

NextInfo ==
    \/ \E p \in SingleInputs : DAcquire(InfoDispatcher, p) /\ ConvoyAside
    \/ \E routed \in BOOLEAN : DResolve(InfoDispatcher, routed) /\ ConvoyAside
    \/ \E flagLike \in BOOLEAN, id \in NewConvoyIDs, ok \in BOOLEAN :
           DCreate(InfoDispatcher, flagLike, id, ok) /\ ConvoyAside
    \/ \E ok \in BOOLEAN : createAutoConvoyDepAdd(InfoDispatcher, ok) /\ ConvoyAside
    \/ \E cv \in ConvoyIDs : DeleteConvoy(cv) /\ ConvoyAside
    \/ \E b \in WorkBeads, routed \in BOOLEAN : ConvoyInfoQuery(b, routed) /\ ConvoyAside

SpecInfo == InitConvoy /\ [][NextInfo]_vars

C19_OwnedDirectReported ==
    /\ cinfo.found # ""
    /\ Present(cinfo.found)
    /\ cinfo.info.Owned
    /\ cinfo.flow = "direct"

----------------------------------------------------------------------------
(* SpecStatus: convoy status changes.  A status is given as text, here a    *)
(* sequence of pieces: blanks and a word in some mix of cases.              *)

KnownStatuses == {"open", "closed", "staged:ready", "staged:warnings"}
StagedStatuses == {"staged:ready", "staged:warnings"}

\* The texts a caller may pass for a status.
StatusTexts ==
    { <<"open">>, <<" ", "closed", " ">>, <<"OPEN">>, <<"Closed">>,
      <<"staged:ready">>, <<"STAGED:READY">>, <<" ", "Staged:Warnings">>,
      <<"staged:warnings", " ">>, <<"in_progress">>, <<"archived">>,
      <<"staged:unknown">> }

\* strings.ToLower on one piece
ToLower(word) ==
    CASE word \in {"OPEN", "Open"} -> "open"
      [] word \in {"CLOSED", "Closed"} -> "closed"
      [] word \in {"STAGED:READY", "Staged:Ready"} -> "staged:ready"
      [] word \in {"STAGED:WARNINGS", "Staged:Warnings"} -> "staged:warnings"
      [] OTHER -> word

\* strings.TrimSpace: blanks and line breaks are white space.
WhiteSpace == {" ", "\n"}

RECURSIVE TrimLeft(_)
TrimLeft(text) ==
    IF text # <<>> /\ Head(text) \in WhiteSpace THEN TrimLeft(Tail(text)) ELSE text

RECURSIVE TrimRight(_)
TrimRight(text) ==
    IF text # <<>> /\ text[Len(text)] \in WhiteSpace
    THEN TrimRight(SubSeq(text, 1, Len(text) - 1))
    ELSE text

TrimSpace(text) == TrimRight(TrimLeft(text))

\* strings.ToLower(strings.TrimSpace(status))
normalizeConvoyStatus(text) ==
    [i \in 1..Len(TrimSpace(text)) |-> ToLower(TrimSpace(text)[i])]

\* "" when the status is one of the four known ones.
ensureKnownConvoyStatus(text) ==
    IF \E k \in KnownStatuses : normalizeConvoyStatus(text) = <<k>>
    THEN ""
    ELSE "unsupported convoy status"

\* A validation that accepts every change between known statuses.
validateConvoyStatusTransition_AnyKnown(current, target) ==
    IF ensureKnownConvoyStatus(current) # "" THEN ensureKnownConvoyStatus(current)
    ELSE ensureKnownConvoyStatus(target)

\* "" when the change from current to target is allowed.
validateConvoyStatusTransition(current, target) ==
    IF ensureKnownConvoyStatus(current) # "" THEN ensureKnownConvoyStatus(current)
    ELSE IF ensureKnownConvoyStatus(target) # "" THEN ensureKnownConvoyStatus(target)
    ELSE LET from == normalizeConvoyStatus(current)[1]
             to   == normalizeConvoyStatus(target)[1]
         IN  IF from = to THEN ""
             ELSE IF to \in {"open", "closed"} THEN ""
             ELSE IF from \in StagedStatuses /\ to \in StagedStatuses THEN ""
             ELSE "illegal convoy status transition"

\* The convoys of SpecStatus: staged by gt convoy stage, or open.
StatusStores ==
    [ConvoyIDs -> {[status |-> st, desc |-> <<"Sprint">>, owned |-> FALSE] :
                      st \in {"staged:ready", "staged:warnings", "open"}}]

InitStatus ==
    /\ TrackerIdle /\ SlingIdle /\ ConcIdle /\ QueueIdle /\ LateIdle
    /\ hq \in StatusStores
    /\ deps = [cv \in ConvoyIDs |-> {}]
    /\ stamp = [b \in {} |-> ""]
    /\ dpc = [d \in {} |-> ""]
    /\ dcall = [d \in {} |-> ""]
    /\ dloc = [d \in {} |-> ""]
    /\ dret = ""
    /\ cinfo = ""
    /\ launched = {cv \in ConvoyIDs : hq[cv].status \in {"open", "closed"}}
    /\ lastReq = [cv |-> "", current |-> "", target |-> <<>>, err |-> ""]

\* A status change is asked for: it is validated against the convoy's current
\* status and, when allowed, written in its normal form.
SetConvoyStatus(cv, target) ==
    LET current == hq[cv].status
        err == validateConvoyStatusTransition(<<current>>, target)
    IN  /\ hq' = IF err = ""
                 THEN [hq EXCEPT ![cv].status = normalizeConvoyStatus(target)[1]]
                 ELSE hq
        /\ launched' = launched \cup
                         {c \in ConvoyIDs : hq'[c].status \in {"open", "closed"}}
        /\ lastReq' = [cv |-> cv, current |-> current, target |-> target, err |-> err]
        /\ UNCHANGED <<deps, stamp, dpc, dcall, dloc, dret, cinfo,
                       trackerVars, slingVars, concVars, queueVars, lateVars>>

NextStatus ==
    \E cv \in ConvoyIDs, target \in StatusTexts : SetConvoyStatus(cv, target)

SpecStatus == InitStatus /\ [][NextStatus]_vars

\* C16: no accepted status change moves a convoy from open or closed to
\* staged:ready or staged:warnings: validateConvoyStatusTransition rejects
\* every such pair, however the two statuses are written, so a convoy that has
\* been open or closed is never staged again.
C16_NoReturnToStaged ==
    /\ \A cv \in launched : hq[cv].status \notin StagedStatuses
    /\ \A current, target \in StatusTexts :
           ( /\ \E k \in {"open", "closed"} : normalizeConvoyStatus(current) = <<k>>
             /\ \E k \in StagedStatuses : normalizeConvoyStatus(target) = <<k>> )
           => validateConvoyStatusTransition(current, target) # ""

\* A convoy that was staged, then launched, closed and reopened, has just been
\* refused a return to staged:ready written in capitals.
C16_Witness ==
    /\ lastReq.cv \in launched
    /\ lastReq.current = "open"
    /\ lastReq.target = <<"STAGED:READY">>
    /\ lastReq.err # ""
    /\ hq[lastReq.cv].status = "open"

----------------------------------------------------------------------------
(* SpecQueue: the queue metadata codec.  A text is a sequence of pieces:    *)
(* the line break, the blank, the separator ": ", the delimiter, the key    *)
(* names and plain words.  No piece ends in a colon or holds a dash besides *)
(* the delimiter, so the substring searches of the code are searches for a  *)
(* piece.                                                                   *)

MaxFields == 2          \* the most fields given arbitrary values at once

queueMetadataDelimiter == "---queue---"

\* The fields in the order FormatQueueMetadata writes them.
FieldOrder ==
    <<"target_rig", "formula", "args", "vars", "enqueued_at", "merge", "convoy",
      "base_branch", "no_merge", "account", "agent", "hook_raw_bead", "no_boot",
      "owned">>

FieldNames == {FieldOrder[i] : i \in 1..Len(FieldOrder)}
BoolFields == {"no_merge", "hook_raw_bead", "no_boot", "owned"}
StringFields == FieldNames \ BoolFields

\* &QueueMetadata{}
ZeroMetadata == [f \in FieldNames |-> IF f \in BoolFields THEN FALSE ELSE <<>>]

\* The nil *QueueMetadata.
NilMetadata == [f \in {"nil"} |-> TRUE]

\* String values: words with a blank or a separator inside, a value with
\* blanks around it, a value of two lines, the delimiter.
StringValues ==
    { <<"a", " ", "b">>, <<"k", ": ", "v">>, <<" ", "a", " ">>,
      <<"a", "\n", "merge", ": ", "b">>, <<queueMetadataDelimiter>> }

\* Every combination of set and unset fields with one plain value, and every
\* choice of up to MaxFields fields with every value.
QueueMetadatas ==
    { [f \in FieldNames |->
          IF f \in BoolFields THEN f \in S
          ELSE IF f \in S THEN <<"a">> ELSE <<>>] : S \in SUBSET FieldNames }
    \cup
    UNION { { [f \in FieldNames |->
                  IF f \in BoolFields THEN f \in S
                  ELSE IF f \in S THEN v[f] ELSE <<>>] :
              v \in [S \cap StringFields -> StringValues] } :
            S \in {T \in SUBSET FieldNames : Cardinality(T) <= MaxFields} }

\* Bead descriptions: empty, one line, lines ending in line breaks, a text
\* that names the delimiter, and a description whose queue block was never
\* stripped.
Descriptions ==
    { <<>>,
      <<"Fix", " ", "bug">>,
      <<"Fix", " ", "bug", "\n", "\n">>,
      <<"see", " ", queueMetadataDelimiter, " ", "docs", "\n">>,
      <<queueMetadataDelimiter, "\n", "formula", ": ", "b", "\n">> }

\* strings.Join(lines, "\n")
RECURSIVE Join(_, _)
Join(lines, sep) ==
    IF lines = <<>> THEN <<>>
    ELSE IF Len(lines) = 1 THEN lines[1]
    ELSE lines[1] \o <<sep>> \o Join(Tail(lines), sep)

\* The line FormatQueueMetadata writes for a field, if it writes one.
FieldLines(m, f) ==
    IF f \in BoolFields
    THEN IF m[f] THEN << <<f, ": ", "true">> >> ELSE <<>>
    ELSE IF m[f] # <<>> THEN << <<f, ": ">> \o m[f] >> ELSE <<>>

RECURSIVE FormatLines(_, _)
FormatLines(m, i) ==
    IF i > Len(FieldOrder) THEN <<>>
    ELSE FieldLines(m, FieldOrder[i]) \o FormatLines(m, i + 1)

FormatQueueMetadata(m) ==
    Join(<< <<queueMetadataDelimiter>> >> \o FormatLines(m, 1), "\n")

\* strings.Index(text, piece): the first position of the piece, 0 if none.
Index(text, piece) ==
    IF \E i \in 1..Len(text) : text[i] = piece
    THEN CHOOSE i \in 1..Len(text) :
             text[i] = piece /\ \A j \in 1..(i - 1) : text[j] # piece
    ELSE 0

\* strings.Split(text, sep)
RECURSIVE Split(_, _)
Split(text, sep) ==
    IF Index(text, sep) = 0 THEN <<text>>
    ELSE <<SubSeq(text, 1, Index(text, sep) - 1)>>
             \o Split(SubSeq(text, Index(text, sep) + 1, Len(text)), sep)

\* The body of ParseQueueMetadata's switch: the field named by key gets val.
SetField(m, key, val) ==
    IF Len(key) = 1 /\ key[1] \in FieldNames
    THEN [m EXCEPT ![key[1]] = IF key[1] \in BoolFields THEN val = <<"true">> ELSE val]
    ELSE m

\* The loop of ParseQueueMetadata over the lines of the section: blank lines
\* and lines without ": " are skipped, a line that is the delimiter ends it.
RECURSIVE ParseLines(_, _)
ParseLines(lines, m) ==
    IF lines = <<>> THEN m
    ELSE LET line == TrimSpace(Head(lines))
             at   == Index(line, ": ")
         IN  IF line = <<>> THEN ParseLines(Tail(lines), m)
             ELSE IF line = <<queueMetadataDelimiter>> THEN m
             ELSE IF at = 0 THEN ParseLines(Tail(lines), m)
             ELSE ParseLines(Tail(lines),
                             SetField(m, TrimSpace(SubSeq(line, 1, at - 1)),
                                         TrimSpace(SubSeq(line, at + 1, Len(line)))))

ParseQueueMetadata(description) ==
    IF Index(description, queueMetadataDelimiter) = 0 THEN NilMetadata
    ELSE ParseLines(Split(SubSeq(description,
                                 Index(description, queueMetadataDelimiter) + 1,
                                 Len(description)), "\n"),
                    ZeroMetadata)

InitQueue ==
    /\ TrackerIdle /\ SlingIdle /\ ConcIdle /\ ConvoyIdle /\ StatusIdle /\ LateIdle
    /\ qm \in QueueMetadatas
    /\ qdesc \in Descriptions
    /\ qtext = <<>>
    /\ qparsed = NilMetadata
    /\ qpc = "new"
    /\ qstripped = <<>>

QueueAside ==
    UNCHANGED <<trackerVars, slingVars, concVars, convoyVars, statusVars, lateVars>>

\* The queue block is written after the description.
WriteQueueMetadata ==
    /\ qpc = "new"
    /\ qtext' = qdesc \o FormatQueueMetadata(qm)
    /\ qpc' = "written"
    /\ UNCHANGED <<qm, qdesc, qparsed, qstripped>>

\* The description is read back.
ReadQueueMetadata ==
    /\ qpc \in {"written", "noted"}
    /\ qparsed' = ParseQueueMetadata(qtext)
    /\ qpc' = IF qpc = "written" THEN "parsed" ELSE "parsedNoted"
    /\ UNCHANGED <<qm, qdesc, qtext, qstripped>>

\* strings.TrimRight(text, "\n")
RECURSIVE TrimRightNewlines(_)
TrimRightNewlines(text) ==
    IF text # <<>> /\ text[Len(text)] = "\n"
    THEN TrimRightNewlines(SubSeq(text, 1, Len(text) - 1))
    ELSE text

StripQueueMetadata(description) ==
    IF Index(description, queueMetadataDelimiter) = 0 THEN description
    ELSE TrimRightNewlines(
             SubSeq(description, 1, Index(description, queueMetadataDelimiter) - 1))

\* Dequeuing: the metadata has been read, the block is stripped.
DequeueStrip ==
    /\ qpc = "parsed"
    /\ qstripped' = StripQueueMetadata(qtext)
    /\ qpc' = "stripped"
    /\ UNCHANGED <<qm, qdesc, qtext, qparsed>>

NextQueue ==
    \/ WriteQueueMetadata /\ QueueAside
    \/ ReadQueueMetadata /\ QueueAside
    \/ DequeueStrip /\ QueueAside

SpecQueue == InitQueue /\ [][NextQueue]_vars

\* A string value that a line of the block carries unchanged: one line, no
\* blank in front or behind.
PlainValue(v) == TrimSpace(v) = v /\ Index(v, "\n") = 0

PlainMetadata(m) == \A f \in StringFields : PlainValue(m[f])

\* C20: for every QueueMetadata m and every description, parsing the
\* description followed by FormatQueueMetadata(m) gives m back.
C20_RoundTrip ==
    qpc = "parsed" => qparsed = qm

\* The round trip of a metadata of plain values after a description that does
\* not hold the delimiter.
C20_PlainRoundTrip ==
    ( /\ qpc = "parsed"
      /\ PlainMetadata(qm)
      /\ Index(qdesc, queueMetadataDelimiter) = 0 )
    => qparsed = qm

\* All fourteen fields set, written after a two-line description and read
\* back unchanged.
C20_AllFieldsRoundTrip ==
    /\ qpc = "parsed"
    /\ \A f \in FieldNames : qm[f] # ZeroMetadata[f]
    /\ qdesc = <<"Fix", " ", "bug", "\n", "\n">>
    /\ qparsed = qm

\* A value with blanks around it comes back without them.
C20_BlankLost ==
    /\ qpc = "parsed"
    /\ qdesc = <<>>
    /\ qm["args"] = <<" ", "a", " ">>
    /\ qparsed["args"] = <<"a">>

\* A value of two lines comes back cut, its second line read as a field.
C20_LineInjected ==
    /\ qpc = "parsed"
    /\ qdesc = <<>>
    /\ qm["args"] = <<"a", "\n", "merge", ": ", "b">>
    /\ qm["merge"] = <<>>
    /\ qparsed["args"] = <<"a">>
    /\ qparsed["merge"] = <<"b">>

\* After a description that still holds a queue block, the old block is read
\* and the new one is not.
C20_StaleBlockRead ==
    /\ qpc = "parsed"
    /\ qdesc = <<queueMetadataDelimiter, "\n", "formula", ": ", "b", "\n">>
    /\ qm["formula"] = <<"a">>
    /\ qparsed["formula"] = <<"b">>

\* C21: for every description and every QueueMetadata m, stripping the
\* description followed by FormatQueueMetadata(m) gives the description
\* without its trailing line breaks.
C21_StripRoundTrip ==
    qpc = "stripped" => qstripped = TrimRightNewlines(qdesc)

\* The strip after a description that does not hold the delimiter.
C21_StripOfPlainDescription ==
    (qpc = "stripped" /\ Index(qdesc, queueMetadataDelimiter) = 0)
    => qstripped = TrimRightNewlines(qdesc)

\* A two-line description comes back without its line breaks and without the
\* block, whatever the block holds.
C21_BlockRemoved ==
    /\ qpc = "stripped"
    /\ qdesc = <<"Fix", " ", "bug", "\n", "\n">>
    /\ qm["args"] = <<queueMetadataDelimiter>>
    /\ qstripped = <<"Fix", " ", "bug">>

\* A description that names the delimiter is cut there: its own words after
\* the delimiter are lost with the block.
C21_DescriptionCut ==
    /\ qpc = "stripped"
    /\ qdesc = <<"see", " ", queueMetadataDelimiter, " ", "docs", "\n">>
    /\ qstripped = <<"see", " ">>

----------------------------------------------------------------------------
(* SpecNote: text is added to a description after its queue block, and the  *)
(* description is read.                                                     *)

\* Text added after the block: a blank line and a line that reads as a field,
\* a blank line and a line with an unknown key, a second delimiter and a line
\* that reads as a field.
Notes ==
    { <<"\n", "\n", "formula", ": ", "z">>,
      <<"\n", "\n", "Reviewed", ": ", "z">>,
      <<"\n", queueMetadataDelimiter, "\n", "formula", ": ", "z">> }

\* Metadata of up to MaxFields set fields.
NotedMetadatas ==
    {m \in QueueMetadatas : Cardinality({f \in FieldNames : m[f] # ZeroMetadata[f]}) <= MaxFields}

InitNote ==
    /\ TrackerIdle /\ SlingIdle /\ ConcIdle /\ ConvoyIdle /\ StatusIdle /\ LateIdle
    /\ qm \in NotedMetadatas
    /\ qdesc \in Descriptions
    /\ qtext = <<>>
    /\ qparsed = NilMetadata
    /\ qpc = "new"
    /\ qstripped = <<>>

\* Someone adds text to the description, after the block.
AppendNote(note) ==
    /\ qpc = "written"
    /\ qtext' = qtext \o note
    /\ qpc' = "noted"
    /\ UNCHANGED <<qm, qdesc, qparsed, qstripped>>

NextNote ==
    \/ WriteQueueMetadata /\ QueueAside
    \/ \E note \in Notes : AppendNote(note) /\ QueueAside
    \/ ReadQueueMetadata /\ QueueAside

SpecNote == InitNote /\ [][NextNote]_vars

\* The text added after the block.
NoteOf(text) == SubSeq(text, Len(qdesc \o FormatQueueMetadata(qm)) + 1, Len(text))

\* C22: ParseQueueMetadata stops at the first blank line and at a second
\* delimiter: a key: value line after a blank line that follows the block is
\* not taken as queue metadata.
C22_StopsAtBlankLine ==
    ( /\ qpc = "parsedNoted"
      /\ PlainMetadata(qm)
      /\ Index(qdesc, queueMetadataDelimiter) = 0 )
    => qparsed = qm

\* A line after a second delimiter is not taken.
C22_StopsAtSecondDelimiter ==
    ( /\ qpc = "parsedNoted"
      /\ PlainMetadata(qm)
      /\ Index(qdesc, queueMetadataDelimiter) = 0
      /\ NoteOf(qtext)[2] = queueMetadataDelimiter )
    => qparsed = qm

\* A line with an unknown key is tolerated.
C22_UnknownKeyTolerated ==
    ( /\ qpc = "parsedNoted"
      /\ PlainMetadata(qm)
      /\ Index(qdesc, queueMetadataDelimiter) = 0
      /\ NoteOf(qtext)[3] = "Reviewed" )
    => qparsed = qm

\* The block set no formula; the line after the blank line is read as one.
C22_LineAfterBlankTaken ==
    /\ qpc = "parsedNoted"
    /\ qdesc = <<"Fix", " ", "bug", "\n", "\n">>
    /\ qm["formula"] = <<>>
    /\ qm["target_rig"] = <<"a", " ", "b">>
    /\ NoteOf(qtext) = <<"\n", "\n", "formula", ": ", "z">>
    /\ qparsed["formula"] = <<"z">>
    /\ qparsed["target_rig"] = qm["target_rig"]

----------------------------------------------------------------------------
(* SpecPID: the daemon's PID file.  Daemons start, write the file and die;  *)
(* pids are taken again by other processes; anyone verifies the file at any *)
(* moment.  The file holds pieces: a pid, the line break, a nonce.          *)

Daemons == {"d1", "d2"}
PIDs == {"101", "102"}
Nonces == {"n1", "n2"}

\* generateNonce: eight random bytes; two daemons do not draw the same.
generateNonce(d) == IF d = "d1" THEN {"n1"} ELSE {"n2"}

NoPIDFile == [exists |-> FALSE, data |-> <<>>]
NoRecordWritten == [pid |-> "", nonce |-> ""]
NoVerify == [read |-> <<"-">>, pid |-> "", nonce |-> <<>>, alive |-> FALSE, err |-> ""]

\* fmt.Sprintf("%d\n%s", pid, nonce)
PIDFileContent(pid, nonce) == <<pid, "\n", nonce>>

\* The file as a daemon may find it: none, or one of the format without
\* nonce left by an earlier version.
PidInit ==
    /\ pidFile \in {NoPIDFile, [exists |-> TRUE, data |-> <<"101">>]}
    /\ procs = [p \in PIDs |-> "dead"]
    /\ wrote = [d \in Daemons |-> NoRecordWritten]
    /\ wpc = [d \in Daemons |-> "idle"]
    /\ wbuf = [d \in Daemons |-> <<>>]
    /\ vres = NoVerify

InitPID ==
    /\ TrackerIdle /\ SlingIdle /\ ConcIdle /\ ConvoyIdle /\ StatusIdle /\ QueueIdle
    /\ PidInit
    /\ LateIdleBut("pid")

Running(d) == \E p \in PIDs : procs[p] = d

\* A daemon starts with a pid no process has, and calls writePIDFile: the
\* nonce is generated and the content made up.
DaemonStart(d, pid, nonce) ==
    /\ ~Running(d)
    /\ procs[pid] = "dead"
    /\ procs' = [procs EXCEPT ![pid] = d]
    /\ wrote' = [wrote EXCEPT ![d] = [pid |-> pid, nonce |-> nonce]]
    /\ wbuf' = [wbuf EXCEPT ![d] = PIDFileContent(pid, nonce)]
    /\ wpc' = [wpc EXCEPT ![d] = "open"]
    /\ UNCHANGED <<pidFile, vres>>

\* os.WriteFile, first step: the file is opened with O_CREATE|O_TRUNC.
WriteFileOpen(d) ==
    /\ wpc[d] = "open"
    /\ pidFile' = [exists |-> TRUE, data |-> <<>>]
    /\ wpc' = [wpc EXCEPT ![d] = "write"]
    /\ UNCHANGED <<procs, wrote, wbuf, vres>>

\* The file after a write of the pieces at the offset: what lies between the
\* end of the file and the offset reads as zero bytes.
WrittenAt(data, offset, pieces) ==
    [i \in 1..(IF Len(data) > offset + Len(pieces) THEN Len(data)
                                                    ELSE offset + Len(pieces)) |->
        IF i > offset /\ i <= offset + Len(pieces) THEN pieces[i - offset]
        ELSE IF i <= Len(data) THEN data[i]
        ELSE "NUL"]

\* os.WriteFile, then: the bytes are written at the writer's offset, all at
\* once or in parts.
WriteFileData(d, k) ==
    /\ wpc[d] = "write"
    /\ k \in 1..Len(wbuf[d])
    /\ pidFile' = [exists |-> TRUE,
                   data |-> WrittenAt(pidFile.data, 3 - Len(wbuf[d]), SubSeq(wbuf[d], 1, k))]
    /\ wbuf' = [wbuf EXCEPT ![d] = SubSeq(@, k + 1, Len(@))]
    /\ wpc' = [wpc EXCEPT ![d] = IF k = Len(wbuf[d]) THEN "idle" ELSE "write"]
    /\ UNCHANGED <<procs, wrote, vres>>

\* A daemon dies, wherever it is; the file stays.
DaemonDie(d) ==
    /\ Running(d)
    /\ procs' = [p \in PIDs |-> IF procs[p] = d THEN "dead" ELSE procs[p]]
    /\ wpc' = [wpc EXCEPT ![d] = "idle"]
    /\ wbuf' = [wbuf EXCEPT ![d] = <<>>]
    /\ UNCHANGED <<pidFile, wrote, vres>>

\* The system gives a free pid to some other process.
ReusePID(pid) ==
    /\ procs[pid] = "dead"
    /\ procs' = [procs EXCEPT ![pid] = "other"]
    /\ UNCHANGED <<pidFile, wrote, wpc, wbuf, vres>>

\* The part of the text before the first line break, and the part after it.
FirstLine(text) ==
    IF Index(text, "\n") = 0 THEN text ELSE SubSeq(text, 1, Index(text, "\n") - 1)
AfterFirstLine(text) ==
    IF Index(text, "\n") = 0 THEN <<>> ELSE SubSeq(text, Index(text, "\n") + 1, Len(text))

\* readPIDFile: [pid, nonce, err]; err is "ENOENT" for a missing file.
readPIDFile(file) ==
    IF ~file.exists THEN [pid |-> "", nonce |-> <<>>, err |-> "ENOENT"]
    ELSE LET text == TrimSpace(file.data)
             first == TrimSpace(FirstLine(text))
         IN  IF FirstLine(text) = <<>>
             THEN [pid |-> "", nonce |-> <<>>, err |-> "empty PID file"]
             ELSE IF ~(Len(first) = 1 /\ first[1] \in PIDs)
             THEN [pid |-> "", nonce |-> <<>>, err |-> "invalid PID in file"]
             ELSE [pid |-> first[1], nonce |-> TrimSpace(AfterFirstLine(text)), err |-> ""]

\* verifyPIDOwnership: [pid, alive, err], given the file and the result of
\* signal 0.
verifyPIDOwnership(file, signalOK) ==
    LET r == readPIDFile(file)
    IN  IF r.err # ""
        THEN IF r.err = "ENOENT"
             THEN [pid |-> "", alive |-> FALSE, err |-> ""]
             ELSE [pid |-> "", alive |-> FALSE, err |-> r.err]
        ELSE IF ~signalOK[r.pid]
        THEN [pid |-> r.pid, alive |-> FALSE, err |-> ""]
        ELSE IF r.nonce = <<>>
        THEN [pid |-> r.pid, alive |-> TRUE, err |-> ""]
        ELSE [pid |-> r.pid, alive |-> TRUE, err |-> ""]

\* process.Signal(0) succeeds for every process that exists.
SignalOK == [p \in PIDs |-> procs[p] # "dead"]

\* A lifecycle operation verifies the file.
VerifyPID ==
    /\ LET v == verifyPIDOwnership(pidFile, SignalOK)
       IN  vres' = [read |-> IF pidFile.exists THEN pidFile.data ELSE <<"ENOENT">>,
                    pid |-> v.pid, nonce |-> readPIDFile(pidFile).nonce,
                    alive |-> v.alive, err |-> v.err]
    /\ UNCHANGED <<pidFile, procs, wrote, wpc, wbuf>>

PidAside ==
    UNCHANGED <<trackerVars, slingVars, concVars, convoyVars, statusVars, queueVars,
                hbVars,
                patrolVars,
                maintVars,
                shutdownVars,
                mrVars,
                acVars,
                reloadVars>>

NextPID ==
    \/ \E d \in Daemons, pid \in PIDs :
           \E nonce \in generateNonce(d) : DaemonStart(d, pid, nonce) /\ PidAside
    \/ \E d \in Daemons : WriteFileOpen(d) /\ PidAside
    \/ \E d \in Daemons, k \in 1..3 : WriteFileData(d, k) /\ PidAside
    \/ \E d \in Daemons : DaemonDie(d) /\ PidAside
    \/ \E pid \in PIDs : ReusePID(pid) /\ PidAside
    \/ VerifyPID /\ PidAside

SpecPID == InitPID /\ [][NextPID]_vars

\* C23: verifyPIDOwnership reports the file as that of a live daemon only
\* when the pid in it is the pid of a running daemon and the nonce in it is
\* the nonce that daemon wrote.
C23_OwnedOnlyWithNonce ==
    [][(vres' # vres /\ vres'.alive) =>
          /\ procs[vres'.pid] \in Daemons
          /\ wrote[procs[vres'.pid]].pid = vres'.pid
          /\ vres'.nonce = <<wrote[procs[vres'.pid]].nonce>>
      ]_vars

\* A file whose pid has no process is never reported alive.
C23_DeadPIDNotAlive ==
    [][(vres' # vres /\ vres'.alive) => procs[vres'.pid] # "dead"]_vars

\* The daemon that wrote (101, n1) still runs, the file now holds 101 with
\* another nonce, and the file is reported as alive.
C23_OtherNonceAccepted ==
    /\ vres.alive
    /\ vres.read = <<"101", "\n", "n2">>
    /\ procs["101"] = "d1"
    /\ wrote["d1"] = [pid |-> "101", nonce |-> "n1"]
    /\ \A d \in Daemons : wpc[d] = "idle"
    /\ pidFile.data = vres.read

\* The pid of a file without nonce was given to another process, and the
\* file is reported as alive.
C23_ReusedPIDAccepted ==
    /\ vres.alive
    /\ vres.read = <<"101">>
    /\ procs["101"] = "other"
    /\ \A d \in Daemons : wrote[d] = NoRecordWritten

\* The complete records a reader may see.
CompleteRecords == {PIDFileContent(pid, nonce) : pid \in PIDs, nonce \in Nonces}

\* C24: a reader that runs while writePIDFile is writing sees the complete
\* record that was there before or the complete new one, never an empty or
\* partly written file.
C24_ReaderSeesCompleteRecord ==
    [][(vres' # vres /\ \E d \in Daemons : wpc[d] # "idle")
          => vres'.read \in CompleteRecords \cup {<<"ENOENT">>, <<"101">>}]_vars

\* A reader has seen the file empty while a daemon was writing it.
C24_EmptySeen ==
    /\ vres.read = <<>>
    /\ vres.err = "empty PID file"
    /\ \E d \in Daemons : wpc[d] = "write" /\ Running(d)

\* A reader has seen the pid without the nonce of a record being written, and
\* took it for a file of the old format.
C24_PartSeen ==
    /\ vres.read = <<"102">>
    /\ vres.alive
    /\ \E d \in Daemons : wpc[d] = "write" /\ wbuf[d] = <<"\n", "n1">>

----------------------------------------------------------------------------
(* SpecHeartbeat: polecat session heartbeats.  Sessions touch their file,   *)
(* files are removed or damaged, time passes, and the heartbeat is checked. *)

MaxHbNow == 1250        \* the heartbeat clock stops here

HbSessions == {"gt-a", "gt-b"}

\* The clock at the start, and the seconds that pass at once.
HbStart == [at |-> 1000]
HbDelays == {59, 60, 61}

\* 3 * time.Minute, in seconds
SessionHeartbeatStaleThreshold == 3 * 60

\* The file holds the time of the touch.
HeartbeatAt(t) == [kind |-> "json", Timestamp |-> t]

\* No file, and a file that is not JSON.
NoHeartbeatFile == [kind |-> "none", Timestamp |-> ZeroTime]
UnparsableHeartbeat == [kind |-> "unparsable", Timestamp |-> ZeroTime]

\* The nil *SessionHeartbeat.
NilHeartbeat == [kind |-> "nil", Timestamp |-> ZeroTime]

\* A file that is JSON without a timestamp: the Timestamp stays the zero time.
HeartbeatWithoutTimestamp == HeartbeatAt(ZeroTime)

NoHeartbeatCheck == [session |-> "", at |-> 0, file |-> NoHeartbeatFile, stale |-> FALSE, exists |-> FALSE]

HbInit ==
    /\ hbNow = HbStart.at
    /\ hbFiles = [s \in HbSessions |-> NoHeartbeatFile]
    /\ hbRes = NoHeartbeatCheck

InitHeartbeat ==
    /\ TrackerIdle /\ SlingIdle /\ ConcIdle /\ ConvoyIdle /\ StatusIdle /\ QueueIdle
    /\ HbInit
    /\ LateIdleBut("hb")

\* Time passes.
HbTick(d) ==
    /\ hbNow + d <= MaxHbNow
    /\ hbNow' = hbNow + d
    /\ UNCHANGED <<hbFiles, hbRes>>

\* TouchSessionHeartbeat: best effort; when it can write, the file holds now.
TouchSessionHeartbeat(s, ok) ==
    /\ hbFiles' = IF ok THEN [hbFiles EXCEPT ![s] = HeartbeatAt(hbNow)] ELSE hbFiles
    /\ UNCHANGED <<hbNow, hbRes>>

\* RemoveSessionHeartbeat
RemoveSessionHeartbeat(s) ==
    /\ hbFiles[s] # NoHeartbeatFile
    /\ hbFiles' = [hbFiles EXCEPT ![s] = NoHeartbeatFile]
    /\ UNCHANGED <<hbNow, hbRes>>

\* The file is left cut short, or as JSON without a timestamp.
DamageHeartbeat(s, content) ==
    /\ hbFiles[s] # NoHeartbeatFile
    /\ hbFiles[s] # content
    /\ hbFiles' = [hbFiles EXCEPT ![s] = content]
    /\ UNCHANGED <<hbNow, hbRes>>

\* ReadSessionHeartbeat: nil when the file is missing or does not parse.
ReadSessionHeartbeat(file) ==
    IF file.kind \in {"none", "unparsable"} THEN NilHeartbeat ELSE file

\* IsSessionHeartbeatStale with a strict comparison.
IsSessionHeartbeatStale_Strict(file, t) ==
    IF ReadSessionHeartbeat(file) = NilHeartbeat
    THEN [stale |-> FALSE, exists |-> FALSE]
    ELSE [stale |-> t - ReadSessionHeartbeat(file).Timestamp > SessionHeartbeatStaleThreshold,
          exists |-> TRUE]

\* IsSessionHeartbeatStale: (stale, exists), given the file and the time.
IsSessionHeartbeatStale(file, t) ==
    IF ReadSessionHeartbeat(file) = NilHeartbeat
    THEN [stale |-> FALSE, exists |-> FALSE]
    ELSE [stale |-> t - ReadSessionHeartbeat(file).Timestamp >= SessionHeartbeatStaleThreshold,
          exists |-> TRUE]

\* The heartbeat of a session is checked.
CheckHeartbeat(s) ==
    /\ hbRes' = [session |-> s, at |-> hbNow, file |-> hbFiles[s],
                 stale |-> IsSessionHeartbeatStale(hbFiles[s], hbNow).stale,
                 exists |-> IsSessionHeartbeatStale(hbFiles[s], hbNow).exists]
    /\ UNCHANGED <<hbNow, hbFiles>>

HbAside ==
    UNCHANGED <<trackerVars, slingVars, concVars, convoyVars, statusVars, queueVars,
                pidVars,
                patrolVars,
                maintVars,
                shutdownVars,
                mrVars,
                acVars,
                reloadVars>>

NextHeartbeat ==
    \/ \E d \in HbDelays : HbTick(d) /\ HbAside
    \/ \E s \in HbSessions, ok \in BOOLEAN : TouchSessionHeartbeat(s, ok) /\ HbAside
    \/ \E s \in HbSessions : RemoveSessionHeartbeat(s) /\ HbAside
    \/ \E s \in HbSessions, content \in {UnparsableHeartbeat, HeartbeatWithoutTimestamp} :
           DamageHeartbeat(s, content) /\ HbAside
    \/ \E s \in HbSessions : CheckHeartbeat(s) /\ HbAside

SpecHeartbeat == InitHeartbeat /\ [][NextHeartbeat]_vars

C25_FreshAndMissing ==
    \/ /\ hbRes.file.kind = "json"
       /\ hbRes.at - hbRes.file.Timestamp = 179
       /\ ~hbRes.stale /\ hbRes.exists
    \/ /\ hbRes.session # "" /\ hbRes.file = NoHeartbeatFile
       /\ hbRes.at > HbStart.at + 180
       /\ ~hbRes.stale /\ ~hbRes.exists

----------------------------------------------------------------------------
(* SpecPatrol: the patrol scheduler.  On every tick each enabled patrol     *)
(* whose interval has passed since its last_run is spawned on a goroutine   *)
(* of its own, unless it is still running; a run takes any time, and writes *)
(* last_run when it returns.                                                *)

MaxPatrolNow == 7       \* the scheduler's clock stops here

Patrols == {"witness", "reaper"}

\* The interval of each patrol, in ticks.
PatrolInterval == [p \in Patrols |-> IF p = "witness" THEN 1 ELSE 3]

PatrolInit ==
    /\ pNow = 0
    /\ pEnabled \in [Patrols -> BOOLEAN]
    /\ lastRun = [p \in Patrols |-> 0 - PatrolInterval[p]]
    /\ active = [p \in Patrols |-> 0]
    /\ spawnedAt = [p \in Patrols |-> 0 - 1]

InitPatrol ==
    /\ TrackerIdle /\ SlingIdle /\ ConcIdle /\ ConvoyIdle /\ StatusIdle /\ QueueIdle
    /\ PatrolInit
    /\ LateIdleBut("patrol")

\* A tick that looks at enabled and interval alone.
PatrolDue_NoRunningCheck(p, t) ==
    /\ pEnabled[p]
    /\ t - lastRun[p] >= PatrolInterval[p]

\* The patrols a tick at time t spawns.
PatrolDue(p, t) ==
    /\ pEnabled[p]
    /\ t - lastRun[p] >= PatrolInterval[p]
    /\ active[p] = 0

\* A tick that writes last_run when it spawns.
PatrolTick_StampsAtSpawn ==
    /\ pNow < MaxPatrolNow
    /\ pNow' = pNow + 1
    /\ active' = [p \in Patrols |-> IF PatrolDue(p, pNow') THEN active[p] + 1 ELSE active[p]]
    /\ spawnedAt' = [p \in Patrols |-> IF PatrolDue(p, pNow') THEN pNow' ELSE spawnedAt[p]]
    /\ lastRun' = [p \in Patrols |-> IF PatrolDue(p, pNow') THEN pNow' ELSE lastRun[p]]
    /\ UNCHANGED pEnabled

\* The tick of the supervisor loop: every patrol that is due is spawned.
PatrolTick ==
    /\ pNow < MaxPatrolNow
    /\ pNow' = pNow + 1
    /\ active' = [p \in Patrols |-> IF PatrolDue(p, pNow') THEN active[p] + 1 ELSE active[p]]
    /\ spawnedAt' = [p \in Patrols |-> IF PatrolDue(p, pNow') THEN pNow' ELSE spawnedAt[p]]
    /\ UNCHANGED <<pEnabled, lastRun>>

\* A run of the patrol returns: last_run is written.
PatrolReturn(p) ==
    /\ active[p] > 0
    /\ active' = [active EXCEPT ![p] = @ - 1]
    /\ lastRun' = [lastRun EXCEPT ![p] = pNow]
    /\ UNCHANGED <<pNow, pEnabled, spawnedAt>>

\* The patrol config is loaded again: a patrol is switched on or off.
PatrolReload(p, enabled) ==
    /\ pEnabled[p] # enabled
    /\ pEnabled' = [pEnabled EXCEPT ![p] = enabled]
    /\ UNCHANGED <<pNow, lastRun, active, spawnedAt>>

PatrolAside ==
    UNCHANGED <<trackerVars, slingVars, concVars, convoyVars, statusVars, queueVars,
                pidVars, hbVars,
                maintVars,
                shutdownVars,
                mrVars,
                acVars,
                reloadVars>>

NextPatrol ==
    \/ PatrolTick /\ PatrolAside
    \/ \E p \in Patrols : PatrolReturn(p) /\ PatrolAside
    \/ \E p \in Patrols, enabled \in BOOLEAN : PatrolReload(p, enabled) /\ PatrolAside

SpecPatrol == InitPatrol /\ [][NextPatrol]_vars

\* C26: no patrol has two runs in progress: a tick that finds the patrol
\* running does not spawn it, however long the run lasts.
C26_OneRunPerPatrol ==
    \A p \in Patrols : active[p] <= 1

\* The witness patrol, of interval 1, has been running for three ticks and is
\* still the only run.
C26_Witness ==
    /\ active["witness"] = 1
    /\ pEnabled["witness"]
    /\ pNow - spawnedAt["witness"] >= 3
    /\ spawnedAt["witness"] > 0

\* C27: last_run is written only in the step in which a run of the patrol
\* returns, with the time of the return; the step that spawns a run leaves it
\* as it is.
C27_LastRunOnReturn ==
    [][\A p \in Patrols :
          /\ lastRun'[p] # lastRun[p] => (active'[p] < active[p] /\ lastRun'[p] = pNow')
          /\ active'[p] > active[p] => lastRun'[p] = lastRun[p]]_vars

\* The reaper was spawned, ran for two ticks and returned: last_run holds the
\* time of the return, and the next run waits for the interval from there.
C27_Witness ==
    /\ active["reaper"] = 0
    /\ spawnedAt["reaper"] > 0
    /\ lastRun["reaper"] = spawnedAt["reaper"] + 2
    /\ pNow = lastRun["reaper"] + 2
    /\ pEnabled["reaper"]

----------------------------------------------------------------------------
(* SpecMaint: the scheduled_maintenance patrol.  Every five minutes the     *)
(* daemon calls runScheduledMaintenance, which runs `gt maintain --force`   *)
(* when the clock is in the one-hour window, the interval has passed since  *)
(* lastMaintenanceRun and a database has reached the commit threshold.      *)
(* Times are minutes; minute 0 is midnight of day 0.                        *)

MaxMaintNow == 1500           \* the clock stops at 01:00 of day 1

MinutesPerDay == 24 * 60
MaintStart == 1310            \* the daemon's first check, 21:50 of day 0

defaultMaintenanceCheckInterval == 5
defaultMaintenanceThreshold == 1000

\* strconv.Atoi on the number texts that occur in a window.
AtoiTable ==
    [t \in {"00", "12", "22", "23", "24", "30", "60"} |->
        CASE t = "00" -> 0 [] t = "12" -> 12 [] t = "22" -> 22 [] t = "23" -> 23
          [] t = "24" -> 24 [] t = "30" -> 30 [] OTHER -> 60]

AtoiOK(part) == Len(part) = 1 /\ part[1] \in DOMAIN AtoiTable
Atoi(part) == AtoiTable[part[1]]

\* The window texts a config holds; <<>> is the empty string.
Windows ==
    { <<"22", ":", "00">>, <<"23", ":", "30">>, <<"00", ":", "00">>,
      <<"24", ":", "00">>, <<"12", ":", "60">>, <<"22", ":", "00", ":", "00">>,
      <<"bad">>, <<>> }

\* strings.SplitN(text, sep, 2)
SplitN2(text, sep) ==
    IF Index(text, sep) = 0 THEN <<text>>
    ELSE <<SubSeq(text, 1, Index(text, sep) - 1),
           SubSeq(text, Index(text, sep) + 1, Len(text))>>

\* parseWindowTime: [hour, minute, err]
parseWindowTime(window) ==
    LET parts == SplitN2(window, ":")
        bad == [hour |-> 0, minute |-> 0, err |-> TRUE]
    IN  IF Len(parts) # 2 THEN bad
        ELSE IF ~AtoiOK(parts[1]) \/ Atoi(parts[1]) < 0 \/ Atoi(parts[1]) > 23 THEN bad
        ELSE IF ~AtoiOK(parts[2]) \/ Atoi(parts[2]) < 0 \/ Atoi(parts[2]) > 59 THEN bad
        ELSE [hour |-> Atoi(parts[1]), minute |-> Atoi(parts[2]), err |-> FALSE]

\* time.Date(now.Year(), now.Month(), now.Day(), hour, minute, 0, 0, loc)
DateOf(t, hour, minute) == (t \div MinutesPerDay) * MinutesPerDay + hour * 60 + minute

isInMaintenanceWindow(t, window) ==
    LET p == parseWindowTime(window)
        windowStart == DateOf(t, p.hour, p.minute)
        windowEnd == windowStart + 60
    IN  IF p.err THEN FALSE
        ELSE ~(t < windowStart) /\ t < windowEnd

\* The interval texts a config holds; "" is the unset interval.
Intervals == {"", "daily", "weekly", "monthly", "48h", "1h", "30m", "0s", "soon"}

\* time.ParseDuration on the interval texts: minutes, or -1 for an error.
ParseDuration(text) ==
    CASE text = "48h" -> 48 * 60
      [] text = "1h" -> 60
      [] text = "30m" -> 30
      [] text = "0s" -> 0
      [] OTHER -> 0 - 1

ParseDurationOK(text) == text \in {"48h", "1h", "30m", "0s"}

\* The smallest gap between two runs that the interval allows.
minGap(interval) ==
    CASE interval = "daily" -> 20 * 60
      [] interval = "weekly" -> 6 * 24 * 60
      [] interval = "monthly" -> 27 * 24 * 60
      [] OTHER -> IF ~ParseDurationOK(interval) \/ ParseDuration(interval) <= 0
                  THEN 20 * 60
                  ELSE ParseDuration(interval) - (ParseDuration(interval) \div 10)

shouldRunMaintenance(t, lastRunAt, interval) ==
    IF IsZero(lastRunAt) THEN TRUE
    ELSE t - lastRunAt >= minGap(interval)

maintenanceWindow(cfg) == cfg.Window
maintenanceInterval(cfg) == IF cfg.Interval # "" THEN cfg.Interval ELSE "daily"
\* Threshold is a pointer: <<>> is nil, <<n>> points to n.
maintenanceThreshold(cfg) ==
    IF cfg.Threshold # <<>> THEN cfg.Threshold[1] ELSE defaultMaintenanceThreshold

\* What compactorCountCommits may answer for one database.
CommitCounts ==
    {[err |-> TRUE, n |-> 0], [err |-> FALSE, n |-> 999], [err |-> FALSE, n |-> 1000]}
DatabaseLists ==
    {<<>>} \cup {<<c>> : c \in CommitCounts}
           \cup {<<c1, c2>> : c1 \in CommitCounts, c2 \in CommitCounts}

\* The loop over the databases: one of them has reached the threshold.
needsMaintenance(databases, threshold) ==
    \E i \in 1..Len(databases) : ~databases[i].err /\ databases[i].n >= threshold

MaintConfigs ==
    [Enabled : BOOLEAN, Window : Windows, Interval : Intervals, Threshold : {<<>>, <<1>>}]

MaintInit ==
    /\ mNow = MaintStart
    /\ mConfig \in MaintConfigs
    /\ lastMaintenanceRun = ZeroTime
    /\ mRuns = <<>>
    /\ mOutcome = "started"

InitMaint ==
    /\ TrackerIdle /\ SlingIdle /\ ConcIdle /\ ConvoyIdle /\ StatusIdle /\ QueueIdle
    /\ MaintInit
    /\ LateIdleBut("maint")

Skip(outcome) ==
    /\ mOutcome' = outcome
    /\ UNCHANGED <<lastMaintenanceRun, mRuns>>

\* One check of the patrol, with the databases it finds and the way the
\* command ends.
runScheduledMaintenance(databases, cmdOK) ==
    LET t == mNow IN
    IF ~mConfig.Enabled THEN Skip("disabled")
    ELSE IF maintenanceWindow(mConfig) = <<>> THEN Skip("no window")
    ELSE IF ~isInMaintenanceWindow(t, maintenanceWindow(mConfig)) THEN Skip("outside")
    ELSE IF ~shouldRunMaintenance(t, lastMaintenanceRun, maintenanceInterval(mConfig))
         THEN Skip("not due")
    ELSE IF Len(databases) = 0 THEN Skip("no databases")
    ELSE IF ~needsMaintenance(databases, maintenanceThreshold(mConfig))
         THEN /\ lastMaintenanceRun' = t
              /\ mOutcome' = "below threshold"
              /\ UNCHANGED mRuns
    ELSE /\ mRuns' = Append(mRuns, [at |-> t, ok |-> cmdOK])
         /\ mOutcome' = IF cmdOK THEN "maintained" ELSE "failed"
         /\ lastMaintenanceRun' = t

\* The check of the patrol when its five minutes have passed.
MaintCheck(databases, cmdOK) ==
    /\ mOutcome = "waiting"
    /\ runScheduledMaintenance(databases, cmdOK)
    /\ UNCHANGED <<mNow, mConfig>>

\* Five minutes pass until the next check.
MaintWait ==
    /\ mOutcome # "waiting"
    /\ mNow + defaultMaintenanceCheckInterval <= MaxMaintNow
    /\ mNow' = mNow + defaultMaintenanceCheckInterval
    /\ mOutcome' = "waiting"
    /\ UNCHANGED <<mConfig, lastMaintenanceRun, mRuns>>

MaintAside ==
    UNCHANGED <<trackerVars, slingVars, concVars, convoyVars, statusVars, queueVars,
                pidVars, hbVars, patrolVars,
                shutdownVars,
                mrVars,
                acVars,
                reloadVars>>

NextMaint ==
    \/ MaintWait /\ MaintAside
    \/ \E databases \in DatabaseLists, cmdOK \in BOOLEAN :
           MaintCheck(databases, cmdOK) /\ MaintAside

SpecMaint == InitMaint /\ [][NextMaint]_vars

\* The windows parseWindowTime accepts.
ValidWindows == {w \in Windows : ~parseWindowTime(w).err}

\* t lies in the hour that begins at the window's HH:MM on some day.
InHourFrom(t, window) ==
    LET p == parseWindowTime(window) IN
    \E day \in (0 - 1)..(MaxMaintNow \div MinutesPerDay) :
        LET start == day * MinutesPerDay + p.hour * 60 + p.minute
        IN  start <= t /\ t < start + 60

\* C28: for every valid window and every instant, isInMaintenanceWindow is
\* true exactly in the hour that begins at HH:MM, also when that hour runs
\* past midnight.
C28_WindowIsTheHourFromStart ==
    \A w \in ValidWindows : isInMaintenanceWindow(mNow, w) <=> InHourFrom(mNow, w)

\* For a window whose hour ends on the day of its start the law holds: true
\* at the start, false one hour later.
C28_SameDayWindow ==
    \A w \in ValidWindows :
        parseWindowTime(w).hour < 23 \/ parseWindowTime(w).minute = 0
            => (isInMaintenanceWindow(mNow, w) <=> InHourFrom(mNow, w))

\* The start instant of 22:00 is inside, and the instant one hour later is
\* outside.
C28_StartInsideEndOutside ==
    /\ mNow = 23 * 60
    /\ ~isInMaintenanceWindow(mNow, <<"22", ":", "00">>)
    /\ isInMaintenanceWindow(mNow - 60, <<"22", ":", "00">>)
    /\ ~isInMaintenanceWindow(mNow - 61, <<"22", ":", "00">>)

\* Window 23:30, 00:15 of the next day: the instant is inside the hour and
\* the function answers no.
C28_PastMidnightMissed ==
    /\ mNow = MinutesPerDay + 15
    /\ mConfig.Window = <<"23", ":", "30">>
    /\ InHourFrom(mNow, mConfig.Window)
    /\ ~isInMaintenanceWindow(mNow, mConfig.Window)
    /\ mOutcome = "outside"

\* Two invocations of the command fall into one window.
SameWindow(r1, r2) == r2.at - r1.at < 60 /\ r1.at - r2.at < 60

\* C29: after a run that succeeded, no later check of the same window invokes
\* the command again, whatever the configured interval.
C29_OncePerWindow ==
    \A i \in 1..Len(mRuns), j \in 1..Len(mRuns) :
        i < j /\ mRuns[i].ok => ~SameWindow(mRuns[i], mRuns[j])

\* With an interval whose smallest gap is an hour or more (daily, weekly,
\* monthly, unset, not parseable, 48h) the window sees one run after a success.
C29_OncePerWindow_LongInterval ==
    minGap(maintenanceInterval(mConfig)) >= 60 => C29_OncePerWindow

\* A daily run succeeded at the start of the window and the checks of the
\* rest of the window have passed without another invocation.
C29_DailyRanOnce ==
    /\ mConfig.Interval = "daily"
    /\ mConfig.Window = <<"22", ":", "00">>
    /\ Len(mRuns) = 1 /\ mRuns[1].ok /\ mRuns[1].at = 22 * 60
    /\ mNow = 23 * 60
    /\ mOutcome = "outside"

\* Interval 30m: the command succeeded at 22:00 and is invoked again at 22:30
\* in the same window.
C29_ShortIntervalRunsTwice ==
    /\ mConfig.Interval = "30m"
    /\ Len(mRuns) = 2
    /\ mRuns[1].ok /\ mRuns[1].at = 22 * 60
    /\ mRuns[2].at = 22 * 60 + 30

\* C39: a maintenance command that fails is not a completed run:
\* lastMaintenanceRun advances only when the command succeeded or when all
\* databases were below the threshold, so that maintenance is still due at
\* the check after a failure.
C39_FailedRunNotCompleted ==
    [][lastMaintenanceRun' # lastMaintenanceRun
         => mOutcome' \in {"maintained", "below threshold"}]_vars

\* lastMaintenanceRun advances only at a check that invoked the command or
\* found all databases below the threshold, and then to the time of the check.
C39_AdvancedOnlyAfterCommandOrThreshold ==
    [][lastMaintenanceRun' # lastMaintenanceRun
         => /\ mOutcome' \in {"maintained", "failed", "below threshold"}
            /\ lastMaintenanceRun' = mNow]_vars

\* A daily run failed at the start of the window, and the check five
\* minutes later finds maintenance not due.
C39_NotDueAfterFailure ==
    /\ mConfig.Interval = "daily"
    /\ Len(mRuns) = 1 /\ ~mRuns[1].ok /\ mRuns[1].at = 22 * 60
    /\ lastMaintenanceRun = 22 * 60
    /\ mNow = 22 * 60 + defaultMaintenanceCheckInterval
    /\ mOutcome = "not due"

----------------------------------------------------------------------------
(* SpecShutdown: gt shutdown.  The command lists the tmux sessions, sorts   *)
(* them into those to stop and those to preserve, asks for confirmation and *)
(* stops them: at once, or gracefully in four phases (ESC, shutdown         *)
(* request, wait, kill).  A session name is the sequence of its parts and   *)
(* hyphens.                                                                 *)

MaxShutdownWait == 12         \* the largest --wait, in seconds

MayorSessionName == <<"gt", "-", "mayor">>
DeaconSessionName == <<"gt", "-", "deacon">>

\* The sessions a tmux server may hold, in the order it lists them.
AllSessions ==
    << <<"editor">>,
       <<"gt", "-", "alpha", "-", "toast">>,
       DeaconSessionName,
       MayorSessionName,
       <<"gt", "-", "rig", "-", "crew", "-", "max">>,
       <<"gt", "-", "rig", "-", "witness">> >>

\* The subsequence of seq at the indices in keep.
Pick(seq, keep) ==
    LET F[i \in 0..Len(seq)] ==
            IF i = 0 THEN <<>>
            ELSE IF i \in keep THEN Append(F[i - 1], seq[i]) ELSE F[i - 1]
    IN  F[Len(seq)]

SessionLists == {Pick(AllSessions, keep) : keep \in SUBSET (1..Len(AllSessions))}

ShutdownWaits == {0 - 1, 0, 3, MaxShutdownWait}

ShutdownFlags ==
    [graceful : BOOLEAN, wait : ShutdownWaits, all : BOOLEAN,
     polecatsOnly : BOOLEAN, yes : BOOLEAN]

\* What the user types at the prompt, lower-cased and trimmed.
Responses == {"y", "yes", "n", ""}

\* strings.HasPrefix(sess, "gt-")
HasGtPrefix(sess) == Len(sess) >= 2 /\ sess[1] = "gt" /\ sess[2] = "-"

\* strings.Contains(sess, "-crew-")
ContainsCrew(sess) ==
    \E i \in 1..(Len(sess) - 2) : sess[i] = "-" /\ sess[i + 1] = "crew" /\ sess[i + 2] = "-"

\* strings.Split(sess, "-"): each part is one piece here.
NameParts(sess) == Pick(sess, {i \in 1..Len(sess) : sess[i] # "-"})

isPolecat(sess) ==
    /\ ~ContainsCrew(sess) /\ sess # MayorSessionName /\ sess # DeaconSessionName
    /\ Len(NameParts(sess)) >= 3
    /\ NameParts(sess)[3] \notin {"witness", "refinery", "crew"}

\* categorizeSessions: does the session go to toStop?
ToStop(sess, flags) ==
    /\ HasGtPrefix(sess)
    /\ IF flags.polecatsOnly THEN isPolecat(sess)
       ELSE IF flags.all THEN TRUE
       ELSE ~ContainsCrew(sess)

categorizeSessions(listed, flags) ==
    Pick(listed, {i \in 1..Len(listed) : ToStop(listed[i], flags)})

Elems(seq) == {seq[i] : i \in 1..Len(seq)}

ShutdownInit ==
    /\ sdSessions \in SessionLists
    /\ sdFlags \in ShutdownFlags
    /\ sdToStop = <<>>
    /\ sdPC = "start"
    /\ sdIdx = 0
    /\ sdRemaining = 0
    /\ sdEsc = {}
    /\ sdMsg = {}
    /\ sdSlept = 0
    /\ sdKills = <<>>

InitShutdown ==
    /\ TrackerIdle /\ SlingIdle /\ ConcIdle /\ ConvoyIdle /\ StatusIdle /\ QueueIdle
    /\ ShutdownInit
    /\ LateIdleBut("shutdown")

\* runShutdown up to the choice between the two ways to stop.
runShutdown(listOK, response) ==
    /\ sdPC = "start"
    /\ sdToStop' = IF listOK THEN categorizeSessions(sdSessions, sdFlags) ELSE <<>>
    /\ sdPC' = IF ~listOK THEN "listing failed"
               ELSE IF Len(sdToStop') = 0 THEN "not running"
               ELSE IF ~sdFlags.yes /\ response # "y" /\ response # "yes" THEN "cancelled"
               ELSE IF sdFlags.graceful THEN "esc"
               ELSE "kill deacon"
    /\ sdIdx' = 1
    /\ UNCHANGED <<sdSessions, sdFlags, sdRemaining, sdEsc, sdMsg, sdSlept, sdKills>>

\* Phase 1: ESC to the next session; the result of SendKeysRaw is dropped.
SendEsc ==
    /\ sdPC = "esc"
    /\ sdEsc' = sdEsc \cup {sdToStop[sdIdx]}
    /\ IF sdIdx < Len(sdToStop)
       THEN sdIdx' = sdIdx + 1 /\ sdPC' = "esc"
       ELSE sdIdx' = 1 /\ sdPC' = "msg"
    /\ UNCHANGED <<sdSessions, sdFlags, sdToStop, sdRemaining, sdMsg, sdSlept, sdKills>>

\* A phase 2 that leaves for the kills after the first request.
SendShutdownMsg_ThenKill ==
    /\ sdPC = "msg"
    /\ sdMsg' = sdMsg \cup {sdToStop[sdIdx]}
    /\ sdIdx' = 1 /\ sdPC' = "kill deacon" /\ sdRemaining' = sdFlags.wait
    /\ UNCHANGED <<sdSessions, sdFlags, sdToStop, sdEsc, sdSlept, sdKills>>

\* Phase 2: the shutdown request to the next session, after half a second;
\* the result of SendKeys is dropped.
SendShutdownMsg ==
    /\ sdPC = "msg"
    /\ sdMsg' = sdMsg \cup {sdToStop[sdIdx]}
    /\ IF sdIdx < Len(sdToStop)
       THEN sdIdx' = sdIdx + 1 /\ sdPC' = "msg" /\ UNCHANGED sdRemaining
       ELSE sdIdx' = 1 /\ sdPC' = "wait" /\ sdRemaining' = sdFlags.wait
    /\ UNCHANGED <<sdSessions, sdFlags, sdToStop, sdEsc, sdSlept, sdKills>>

\* Phase 3: one round of the countdown, or its end.
WaitStep ==
    /\ sdPC = "wait"
    /\ IF sdRemaining > 0
       THEN /\ sdSlept' = sdSlept + (IF sdRemaining < 5 THEN sdRemaining ELSE 5)
            /\ sdRemaining' = sdRemaining - 5
            /\ UNCHANGED <<sdPC, sdIdx>>
       ELSE /\ sdPC' = "kill deacon"
            /\ sdIdx' = 1
            /\ UNCHANGED <<sdSlept, sdRemaining>>
    /\ UNCHANGED <<sdSessions, sdFlags, sdToStop, sdEsc, sdMsg, sdKills>>

\* killSessionsInOrder, step 1: the deacon, if it is in the list.
KillDeacon(ok) ==
    /\ sdPC = "kill deacon"
    /\ IF DeaconSessionName \in Elems(sdToStop)
       THEN sdKills' = Append(sdKills, [sess |-> DeaconSessionName, ok |-> ok])
       ELSE ok /\ UNCHANGED sdKills
    /\ sdPC' = "kill others"
    /\ sdIdx' = 1
    /\ UNCHANGED <<sdSessions, sdFlags, sdToStop, sdRemaining, sdEsc, sdMsg, sdSlept>>

\* A loop over the list that kills every session it meets.
KillOther_NoSkip(ok) ==
    /\ sdPC = "kill others"
    /\ IF sdIdx > Len(sdToStop)
       THEN ok /\ sdPC' = "kill mayor" /\ UNCHANGED <<sdKills, sdIdx>>
       ELSE /\ sdIdx' = sdIdx + 1
            /\ UNCHANGED sdPC
            /\ sdKills' = Append(sdKills, [sess |-> sdToStop[sdIdx], ok |-> ok])
    /\ UNCHANGED <<sdSessions, sdFlags, sdToStop, sdRemaining, sdEsc, sdMsg, sdSlept>>

\* killSessionsInOrder, step 2: one round of the loop over the others.
KillOther(ok) ==
    /\ sdPC = "kill others"
    /\ IF sdIdx > Len(sdToStop)
       THEN ok /\ sdPC' = "kill mayor" /\ UNCHANGED <<sdKills, sdIdx>>
       ELSE /\ sdIdx' = sdIdx + 1
            /\ UNCHANGED sdPC
            /\ IF sdToStop[sdIdx] = DeaconSessionName \/ sdToStop[sdIdx] = MayorSessionName
               THEN ok /\ UNCHANGED sdKills
               ELSE sdKills' = Append(sdKills, [sess |-> sdToStop[sdIdx], ok |-> ok])
    /\ UNCHANGED <<sdSessions, sdFlags, sdToStop, sdRemaining, sdEsc, sdMsg, sdSlept>>

\* killSessionsInOrder, step 3: the mayor, if it is in the list.
KillMayor(ok) ==
    /\ sdPC = "kill mayor"
    /\ IF MayorSessionName \in Elems(sdToStop)
       THEN sdKills' = Append(sdKills, [sess |-> MayorSessionName, ok |-> ok])
       ELSE ok /\ UNCHANGED sdKills
    /\ sdPC' = "complete"
    /\ UNCHANGED <<sdSessions, sdFlags, sdToStop, sdIdx, sdRemaining, sdEsc, sdMsg, sdSlept>>

ShutdownAside ==
    UNCHANGED <<trackerVars, slingVars, concVars, convoyVars, statusVars, queueVars,
                pidVars, hbVars, patrolVars, maintVars,
                mrVars,
                acVars,
                reloadVars>>

NextShutdown ==
    \/ \E listOK \in BOOLEAN, response \in Responses :
           runShutdown(listOK, response) /\ ShutdownAside
    \/ SendEsc /\ ShutdownAside
    \/ SendShutdownMsg /\ ShutdownAside
    \/ WaitStep /\ ShutdownAside
    \/ \E ok \in BOOLEAN : KillDeacon(ok) /\ ShutdownAside
    \/ \E ok \in BOOLEAN : KillOther(ok) /\ ShutdownAside
    \/ \E ok \in BOOLEAN : KillMayor(ok) /\ ShutdownAside

SpecShutdown == InitShutdown /\ [][NextShutdown]_vars

\* The seconds the wait phase sleeps for a given --wait.
WaitPeriod(wait) == IF wait > 0 THEN wait ELSE 0

\* C30: in a graceful shutdown the phases run in order: a shutdown request is
\* sent only when every session to stop has been sent ESC, the wait begins
\* only when every one has been sent the request, and a session is killed
\* only when the whole wait period has been slept.
C30_PhasesInOrder ==
    sdFlags # <<>> /\ sdFlags.graceful =>
        /\ sdMsg # {} => sdEsc = Elems(sdToStop)
        /\ sdPC = "wait" \/ sdSlept > 0 => sdMsg = Elems(sdToStop)
        /\ sdPC \in {"kill deacon", "kill others", "kill mayor", "complete"} \/ sdKills # <<>> =>
              /\ sdEsc = Elems(sdToStop)
              /\ sdMsg = Elems(sdToStop)
              /\ sdSlept = WaitPeriod(sdFlags.wait)

\* A graceful shutdown of three sessions with --wait 12 has killed the first
\* of them after twelve seconds of sleep.
C30_Witness ==
    /\ sdFlags.graceful /\ sdFlags.wait = MaxShutdownWait
    /\ Len(sdToStop) >= 3
    /\ Len(sdKills) = 1
    /\ sdSlept = MaxShutdownWait
    /\ sdEsc = Elems(sdToStop) /\ sdMsg = Elems(sdToStop)

\* C31: of the KillSession calls of a shutdown, the deacon's comes before
\* every other and the mayor's comes after every other.
C31_DeaconFirstMayorLast ==
    \A i \in 1..Len(sdKills), j \in 1..Len(sdKills) :
        i < j => sdKills[j].sess # DeaconSessionName /\ sdKills[i].sess # MayorSessionName

\* A shutdown has ended whose list holds a polecat before the deacon and the
\* mayor before a witness: four kills, the deacon's first, the mayor's last.
C31_Witness ==
    /\ sdPC = "complete"
    /\ Len(sdToStop) = 4 /\ Len(sdKills) = 4
    /\ sdToStop[2] = DeaconSessionName /\ sdToStop[3] = MayorSessionName
    /\ sdKills[1].sess = DeaconSessionName /\ sdKills[4].sess = MayorSessionName
    /\ ~sdKills[1].ok

----------------------------------------------------------------------------
(* SpecMR: the merge-request lookup of gt done.  Merge-request beads carry  *)
(* their branch in the first line of the description; FindMRForBranch lists *)
(* them and returns the first one that fits.  A description is a sequence   *)
(* of pieces, a branch name is one piece or a piece and its suffix.         *)

MaxMRs == 3             \* the most merge-request beads in the store

Branches == { <<"feat">>, <<"feat", "-2">> }

MRStatuses == {"open", "in_progress", "closed"}

\* The descriptions a merge-request bead may carry.
MRDescriptions ==
    { <<"branch: ">> \o b \o <<"\n", "target: main">> : b \in Branches }
        \cup { <<"branch: ">> \o b : b \in Branches }
        \cup { <<"target: main", "\n", "branch: ", "feat", "\n">> }

MRIssues == [Status : MRStatuses, Description : MRDescriptions]

\* strings.HasPrefix(text, prefix)
HasPrefix(text, prefix) ==
    Len(text) >= Len(prefix) /\ SubSeq(text, 1, Len(prefix)) = prefix

NoMRCall == [branch |-> <<>>, found |-> 0, err |-> FALSE]

MRInit ==
    /\ mrIssues = <<>>
    /\ mrRes = NoMRCall

InitMR ==
    /\ TrackerIdle /\ SlingIdle /\ ConcIdle /\ ConvoyIdle /\ StatusIdle /\ QueueIdle
    /\ MRInit
    /\ LateIdleBut("mr")

\* findMRForBranch: the index of the bead returned, 0 for nil.
findMRForBranch(issues, branch, skipClosed) ==
    LET branchPrefix == <<"branch: ">> \o branch \o <<"\n">>
        fits(i) ==
            /\ ~(skipClosed /\ issues[i].Status = "closed")
            /\ HasPrefix(issues[i].Description, branchPrefix)
    IN  IF \E i \in 1..Len(issues) : fits(i)
        THEN CHOOSE i \in 1..Len(issues) : fits(i) /\ \A j \in 1..(i - 1) : ~fits(j)
        ELSE 0

\* gt done submits a merge request: a bead is appended to the list.
CreateMR(issue) ==
    /\ Len(mrIssues) < MaxMRs
    /\ mrIssues' = Append(mrIssues, issue)
    /\ mrRes' = NoMRCall

\* The refinery claims, merges or rejects a merge request.
SetMRStatus(i, status) ==
    /\ mrIssues[i].Status # status
    /\ mrIssues' = [mrIssues EXCEPT ![i].Status = status]
    /\ mrRes' = NoMRCall

\* FindMRForBranch(branch); List may fail.
FindMRForBranch(branch, listOK) ==
    /\ mrIssues # <<>>
    /\ mrRes' = IF listOK
                THEN [branch |-> branch, found |-> findMRForBranch(mrIssues, branch, TRUE),
                      err |-> FALSE]
                ELSE [branch |-> branch, found |-> 0, err |-> TRUE]
    /\ UNCHANGED mrIssues

MRAside ==
    UNCHANGED <<trackerVars, slingVars, concVars, convoyVars, statusVars, queueVars,
                pidVars, hbVars, patrolVars, maintVars, shutdownVars,
                acVars,
                reloadVars>>

NextMR ==
    \/ \E issue \in MRIssues : CreateMR(issue) /\ MRAside
    \/ \E i \in 1..Len(mrIssues), status \in MRStatuses : SetMRStatus(i, status) /\ MRAside
    \/ \E branch \in Branches, listOK \in BOOLEAN : FindMRForBranch(branch, listOK) /\ MRAside

SpecMR == InitMR /\ [][NextMR]_vars

\* The bead at i is a merge request of the branch: its description starts
\* with "branch: <branch>" and a line break.
OfBranch(i, branch) ==
    HasPrefix(mrIssues[i].Description, <<"branch: ">> \o branch \o <<"\n">>)

\* C32: FindMRForBranch returns the first listed bead that is open and of the
\* branch, and nil when there is none; a bead that is not open is never
\* returned.
C32_FirstOpenOfBranch ==
    mrRes # <<>> /\ mrRes.branch # <<>> /\ ~mrRes.err =>
        LET open(i) == mrIssues[i].Status = "open" /\ OfBranch(i, mrRes.branch)
        IN  IF \E i \in 1..Len(mrIssues) : open(i)
            THEN /\ mrRes.found # 0
                 /\ open(mrRes.found)
                 /\ \A j \in 1..(mrRes.found - 1) : ~open(j)
            ELSE mrRes.found = 0

\* What holds: the bead returned is the first listed one that is not closed
\* and of the branch.
C32_FirstNotClosedOfBranch ==
    mrRes # <<>> /\ mrRes.branch # <<>> /\ ~mrRes.err =>
        LET live(i) == mrIssues[i].Status # "closed" /\ OfBranch(i, mrRes.branch)
        IN  IF \E i \in 1..Len(mrIssues) : live(i)
            THEN /\ mrRes.found # 0
                 /\ live(mrRes.found)
                 /\ \A j \in 1..(mrRes.found - 1) : ~live(j)
            ELSE mrRes.found = 0

\* A merge request that the refinery has in progress is returned although an
\* open one of the same branch is listed after it.
C32_InProgressReturned ==
    /\ mrRes.branch = <<"feat">> /\ mrRes.found = 1
    /\ mrIssues[1].Status = "in_progress"
    /\ Len(mrIssues) >= 2 /\ mrIssues[2].Status = "open" /\ OfBranch(2, <<"feat">>)

\* A closed merge request of the branch and one of branch feat-2 are passed
\* over, the open one behind them is returned.
C32_ClosedPassedOver ==
    /\ mrRes.branch = <<"feat">> /\ mrRes.found = 3
    /\ mrIssues[1].Status = "closed" /\ OfBranch(1, <<"feat">>)
    /\ OfBranch(2, <<"feat", "-2">>) /\ mrIssues[2].Status = "open"
    /\ mrIssues[3].Status = "open"

----------------------------------------------------------------------------
(* SpecCommit: the bd commands of createAutoConvoy and createBatchConvoy,   *)
(* one by one, with the auto-commit setting each of them runs under.  gt    *)
(* sling may have set BD_DOLT_AUTO_COMMIT=off for the whole process; a      *)
(* command built with WithAutoCommit() runs with auto-commit on all the     *)
(* same, any other command inherits the setting of the process.             *)

\* BdCmd(args...).Dir(dir) with or without WithAutoCommit(), and how it ended.
BdCmd(verb, dir, withAutoCommit, ok) ==
    [verb |-> verb, dir |-> dir, autoCommit |-> withAutoCommit \/ acEnv # "off", ok |-> ok]

CommitInit ==
    /\ acEnv \in {"", "off"}
    /\ acCall = <<>>
    /\ acPC = "idle"
    /\ acCmds = <<>>
    /\ acRet = ""

InitCommit ==
    /\ TrackerIdle /\ SlingIdle /\ ConcIdle /\ ConvoyIdle /\ StatusIdle /\ QueueIdle
    /\ CommitInit
    /\ LateIdleBut("ac")

\* createAutoConvoy or createBatchConvoy is called, and runs up to bd create.
ConvoyCreateCall(p, flagLikeTitle) ==
    /\ acPC = "idle"
    /\ acCall' = p
    /\ acCmds' = <<>>
    /\ IF p.kind = "single" /\ flagLikeTitle
       THEN acPC' = "idle" /\ acRet' = "refusing to create convoy"
       ELSE IF p.kind = "batch" /\ Len(p.beads) = 0
       THEN acPC' = "idle" /\ acRet' = "no beads to track"
       ELSE acPC' = "create" /\ acRet' = ""
    /\ UNCHANGED acEnv

\* bd create --type=convoy, in the town's .beads
BdCreate(ok) ==
    /\ acPC = "create"
    /\ acCmds' = Append(acCmds, BdCmd("create", "townBeads", TRUE, ok))
    /\ IF ok
       THEN acPC' = "depAdd" /\ acRet' = ""
       ELSE acPC' = "idle" /\ acRet' = "creating convoy"
    /\ UNCHANGED <<acEnv, acCall>>

\* The number of dep add commands run so far.
DepAdds == Cardinality({i \in 1..Len(acCmds) : acCmds[i].verb = "dep add"})

\* createAutoConvoy: bd dep add; when it fails, bd close of the convoy, whose
\* result is dropped (modelled as run), and the error.
BdDepAddSingle(ok) ==
    /\ acPC = "depAdd" /\ acCall.kind = "single"
    /\ acCmds' = IF ok
                 THEN Append(acCmds, BdCmd("dep add", "townRoot", TRUE, ok))
                 ELSE acCmds \o <<BdCmd("dep add", "townRoot", TRUE, ok),
                                 BdCmd("close", "townRoot", FALSE, TRUE)>>
    /\ acPC' = "idle"
    /\ acRet' = IF ok THEN "" ELSE "adding tracking relation"
    /\ UNCHANGED <<acEnv, acCall>>

\* createBatchConvoy: bd dep add for the next bead of the list; after the
\* last one the call returns.
BdDepAddBatch(ok) ==
    /\ acPC = "depAdd" /\ acCall.kind = "batch"
    /\ acCmds' = Append(acCmds, BdCmd("dep add", "townRoot", TRUE, ok))
    /\ acPC' = IF DepAdds + 1 < Len(acCall.beads) THEN "depAdd" ELSE "idle"
    /\ acRet' = ""
    /\ UNCHANGED <<acEnv, acCall>>

CommitAside ==
    UNCHANGED <<trackerVars, slingVars, concVars, convoyVars, statusVars, queueVars,
                pidVars, hbVars, patrolVars, maintVars, shutdownVars, mrVars,
                reloadVars>>

NextCommit ==
    \/ \E p \in DispatchInputs(Ownerships), flagLikeTitle \in BOOLEAN :
           ConvoyCreateCall(p, flagLikeTitle) /\ CommitAside
    \/ \E ok \in BOOLEAN : BdCreate(ok) /\ CommitAside
    \/ \E ok \in BOOLEAN : BdDepAddSingle(ok) /\ CommitAside
    \/ \E ok \in BOOLEAN : BdDepAddBatch(ok) /\ CommitAside

SpecCommit == InitCommit /\ [][NextCommit]_vars

\* C35: every store write of a convoy creation (the create, each dep add, the
\* close of the convoy after a failed dep add) runs with auto-commit on,
\* also when the process has auto-commit off.
C35_EveryWriteAutoCommitted ==
    \A i \in 1..Len(acCmds) : acCmds[i].autoCommit

\* The create and every dep add run with auto-commit on.
C35_CreateAndDepAddCommitted ==
    \A i \in 1..Len(acCmds) :
        acCmds[i].verb \in {"create", "dep add"} => acCmds[i].autoCommit

\* With auto-commit off in the process, the close after a failed dep add runs
\* with auto-commit off.
C35_CloseNotCommitted ==
    /\ acEnv = "off"
    /\ acRet = "adding tracking relation"
    /\ Len(acCmds) = 3
    /\ acCmds[1].verb = "create" /\ acCmds[1].autoCommit
    /\ acCmds[2].verb = "dep add" /\ acCmds[2].autoCommit /\ ~acCmds[2].ok
    /\ acCmds[3].verb = "close" /\ ~acCmds[3].autoCommit

\* A batch of two has run its create and both dep adds with auto-commit on
\* although the process has it off.
C35_BatchCommitted ==
    /\ acEnv = "off" /\ acPC = "idle"
    /\ acCall # <<>> /\ acCall.kind = "batch"
    /\ Len(acCmds) = 3
    /\ \A i \in 1..3 : acCmds[i].autoCommit

----------------------------------------------------------------------------
(* The state file between two processes: the daemon, whose tracker lives   *)
(* in memory and is saved and reloaded, and gt daemon clear-backoff, which *)
(* loads the file into a tracker of its own, clears one agent and saves.   *)
(* rt.state.Agents is a Go map: a read of a nil map finds nothing, an      *)
(* assignment into a nil map panics.                                       *)

MaxReloadNow == 900     \* the clock of the reload model stops here (seconds)
ReloadDelays == {300}

\* The tracker configuration of the running daemon.
ReloadConfig ==
    NewRestartTracker([ InitialBackoff |-> 60, MaxBackoff |-> 300, BackoffMultiplier |-> 3,
                        CrashLoopWindow |-> -1, CrashLoopCount |-> 3, StabilityPeriod |-> 900 ])

\* What restart_state.json may hold when the daemon starts.
FileContents ==
    { [kind |-> k, agents |-> EmptyMap] :
        k \in {"missing", "empty object", "agents absent", "agents null", "corrupt"} }

\* &RestartTracker{state: &RestartState{Agents: make(map...)}}
NewTracker == [nil |-> FALSE, agents |-> EmptyMap]

NoReloadCall == [op |-> "", id |-> "", res |-> ""]
NoClear == [id |-> "", since |-> ZeroTime, reloaded |-> FALSE]

\* Load: a missing file is no error; json.Unmarshal into rt.state leaves the
\* state alone on a syntax error, leaves Agents alone when the object has no
\* agents member, sets Agents to nil for "agents": null, and otherwise puts
\* the file's entries into the map.
LoadFile(rt, file) ==
    IF file.kind = "missing" THEN [rt |-> rt, err |-> ""]
    ELSE IF file.kind = "corrupt" THEN [rt |-> rt, err |-> "unmarshal"]
    ELSE IF file.kind = "agents null"
         THEN [rt |-> [nil |-> TRUE, agents |-> EmptyMap], err |-> ""]
    ELSE IF file.kind = "state"
         THEN [rt |-> [nil |-> FALSE, agents |-> Loaded(rt.agents, file.agents)],
               err |-> ""]
    ELSE [rt |-> rt, err |-> ""]

\* What Save writes: json.MarshalIndent of the state; a nil map is written
\* as null.
SaveFile(rt) ==
    IF rt.nil THEN [kind |-> "agents null", agents |-> EmptyMap]
    ELSE [kind |-> "state", agents |-> rt.agents]

BoolText(b) == IF b THEN "true" ELSE "false"

ReloadInit ==
    /\ rlNow \in ReloadDelays
    /\ rlFile \in FileContents
    /\ rlMem = NewTracker
    /\ rlCli = [pc |-> "idle", id |-> "", rt |-> NewTracker]
    /\ rlPanic = FALSE
    /\ rlLast = NoReloadCall
    /\ rlClear = NoClear

InitReload ==
    /\ TrackerIdle /\ SlingIdle /\ ConcIdle /\ ConvoyIdle /\ StatusIdle /\ QueueIdle
    /\ ReloadInit
    /\ LateIdleBut("rl")

ReloadTick(d) ==
    /\ rlNow + d <= MaxReloadNow
    /\ rlNow' = rlNow + d
    /\ UNCHANGED <<rlFile, rlMem, rlCli, rlPanic, rlLast, rlClear>>

\* The daemon loads the file: at startup, and again on the lifecycle signal.
DaemonLoad ==
    /\ ~rlPanic
    /\ LET r == LoadFile(rlMem, rlFile)
       IN  /\ rlMem' = r.rt
           /\ rlLast' = [op |-> "Load", id |-> "", res |-> r.err]
           /\ rlClear' = IF rlClear.id # "" /\ r.err = ""
                         THEN [rlClear EXCEPT !.reloaded = TRUE]
                         ELSE rlClear
    /\ UNCHANGED <<rlNow, rlFile, rlCli, rlPanic>>

DaemonCanRestart(id) ==
    /\ ~rlPanic
    /\ rlLast' = [op |-> "CanRestart", id |-> id,
                  res |-> BoolText(CanRestart(rlMem.agents, id, rlNow))]
    /\ UNCHANGED <<rlNow, rlFile, rlMem, rlCli, rlPanic, rlClear>>

\* RecordRestart puts a new record into the map for an agent it has none
\* for: on a nil map that assignment panics.
DaemonRecordRestart(id) ==
    /\ ~rlPanic
    /\ id \in DOMAIN rlMem.agents => rlMem.agents[id].RestartCount < MaxRestarts
    /\ IF rlMem.nil
       THEN /\ rlPanic' = TRUE
            /\ rlLast' = [op |-> "RecordRestart", id |-> id, res |-> "panic"]
            /\ UNCHANGED rlMem
       ELSE /\ rlMem' = [rlMem EXCEPT
                            !.agents = RecordRestart(rlMem.agents, ReloadConfig, id, rlNow)]
            /\ rlLast' = [op |-> "RecordRestart", id |-> id, res |-> ""]
            /\ UNCHANGED rlPanic
    /\ UNCHANGED <<rlNow, rlFile, rlCli, rlClear>>

DaemonRecordSuccess(id) ==
    /\ ~rlPanic
    /\ rlMem' = [rlMem EXCEPT
                    !.agents = RecordSuccess(rlMem.agents, ReloadConfig, id, rlNow)]
    /\ rlLast' = [op |-> "RecordSuccess", id |-> id, res |-> ""]
    /\ UNCHANGED <<rlNow, rlFile, rlCli, rlPanic, rlClear>>

DaemonClearCrashLoop(id) ==
    /\ ~rlPanic
    /\ rlMem' = [rlMem EXCEPT !.agents = ClearCrashLoop(rlMem.agents, id)]
    /\ rlLast' = [op |-> "ClearCrashLoop", id |-> id, res |-> ""]
    /\ UNCHANGED <<rlNow, rlFile, rlCli, rlPanic, rlClear>>

\* The daemon saves the state of its tracker.
DaemonSave(ok) ==
    /\ ~rlPanic
    /\ rlFile' = IF ok THEN SaveFile(rlMem) ELSE rlFile
    /\ rlLast' = [op |-> "Save", id |-> "", res |-> IF ok THEN "" ELSE "write"]
    /\ UNCHANGED <<rlNow, rlMem, rlCli, rlPanic, rlClear>>

\* ClearAgentBackoff up to its Load: a new tracker of the other process
\* loads the file; a load error is returned.
ClearAgentBackoff_Load(id) ==
    /\ rlCli.pc = "idle"
    /\ LET r == LoadFile(NewTracker, rlFile)
       IN  rlCli' = IF r.err # ""
                    THEN [pc |-> "idle", id |-> id, rt |-> NewTracker]
                    ELSE [pc |-> "loaded", id |-> id, rt |-> r.rt]
    /\ UNCHANGED <<rlNow, rlFile, rlMem, rlPanic, rlLast, rlClear>>

\* The agent's record, as the other process loaded it, is a crash loop that
\* began before now.
ClearsCrashLoop ==
    /\ IsInCrashLoop(rlCli.rt.agents, rlCli.id)
    /\ rlCli.rt.agents[rlCli.id].CrashLoopSince < rlNow

\* ClearAgentBackoff from ClearCrashLoop on: the record is cleared in the
\* other process's tracker, which is then saved.
ClearAgentBackoff_Save(ok) ==
    /\ rlCli.pc = "loaded"
    /\ LET rt == [rlCli.rt EXCEPT !.agents = ClearCrashLoop(rlCli.rt.agents, rlCli.id)]
       IN  rlFile' = IF ok THEN SaveFile(rt) ELSE rlFile
    /\ rlClear' = IF ok /\ ClearsCrashLoop
                  THEN [id |-> rlCli.id,
                        since |-> rlCli.rt.agents[rlCli.id].CrashLoopSince,
                        reloaded |-> FALSE]
                  ELSE rlClear
    /\ rlCli' = [pc |-> "idle", id |-> rlCli.id, rt |-> NewTracker]
    /\ UNCHANGED <<rlNow, rlMem, rlPanic, rlLast>>

ReloadAside ==
    UNCHANGED <<trackerVars, slingVars, concVars, convoyVars, statusVars, queueVars,
                pidVars, hbVars, patrolVars, maintVars, shutdownVars, mrVars, acVars>>

NextReload ==
    \/ \E d \in ReloadDelays : ReloadTick(d) /\ ReloadAside
    \/ DaemonLoad /\ ReloadAside
    \/ \E id \in AgentIDs : DaemonCanRestart(id) /\ ReloadAside
    \/ \E id \in AgentIDs : DaemonRecordRestart(id) /\ ReloadAside
    \/ \E id \in AgentIDs : DaemonRecordSuccess(id) /\ ReloadAside
    \/ \E id \in AgentIDs : DaemonClearCrashLoop(id) /\ ReloadAside
    \/ \E ok \in BOOLEAN : DaemonSave(ok) /\ ReloadAside
    \/ \E id \in AgentIDs : ClearAgentBackoff_Load(id) /\ ReloadAside
    \/ \E ok \in BOOLEAN : ClearAgentBackoff_Save(ok) /\ ReloadAside

SpecReload == InitReload /\ [][NextReload]_vars

\* C37: after Load has read whatever restart_state.json holds, the daemon's
\* CanRestart, RecordRestart, RecordSuccess and ClearCrashLoop calls complete:
\* none of them panics.
C37_CallsAfterLoadComplete ==
    ~rlPanic

\* The calls that only read the map complete on whatever Load left, and
\* RecordRestart panics on nothing but a nil map.
C37_OnlyWriteToNilMapPanics ==
    /\ rlPanic => rlLast.op = "RecordRestart" /\ rlMem.nil
    /\ rlLast.op \in {"CanRestart", "RecordSuccess", "ClearCrashLoop"} => ~rlPanic

\* The daemon loaded "agents": null and RecordRestart panicked.
C37_NullAgentsPanics ==
    /\ rlPanic
    /\ rlFile.kind = "agents null"
    /\ rlLast = [op |-> "RecordRestart", id |-> "a", res |-> "panic"]

\* CanRestart completed on the nil map.
C37_ReadOfNilMapCompletes ==
    /\ rlMem.nil
    /\ rlLast = [op |-> "CanRestart", id |-> "a", res |-> "true"]

\* The record of the cleared agent is the crash loop that was cleared.
StaleCrashLoop(st) ==
    /\ rlClear.id \in DOMAIN st
    /\ st[rlClear.id].CrashLoopSince = rlClear.since

\* C38: a crash-loop clear written by ClearAgentBackoff is not lost: the
\* file does not come to hold the cleared crash loop again, and once the
\* daemon has reloaded the file its tracker does not hold it either.
C38_ClearNeverLost ==
    rlClear.id # "" =>
        /\ ~StaleCrashLoop(rlFile.agents)
        /\ rlClear.reloaded => ~StaleCrashLoop(rlMem.agents)

\* A reload that finds the cleared record still in the file leaves the
\* daemon's tracker without the crash loop.
C38_ReloadAdoptsClearedFile ==
    [][rlClear.id # "" /\ ~StaleCrashLoop(rlFile.agents)
         /\ rlLast'.op = "Load" /\ UNCHANGED <<rlNow, rlFile, rlCli>>
         => ~StaleCrashLoop(rlMem'.agents)]_vars

\* The file loses the clear to nothing but a save of the daemon.
C38_OnlyDaemonSaveOverwrites ==
    [][rlClear.id # "" /\ rlClear' = rlClear
         /\ ~StaleCrashLoop(rlFile.agents) /\ StaleCrashLoop(rlFile.agents')
         => rlLast'.op = "Save"]_vars

\* The daemon saved its own record over the cleared one and then reloaded:
\* file and tracker hold the crash loop again.
C38_StaleSaveOverwritesClear ==
    /\ rlClear.id = "a"
    /\ rlClear.reloaded
    /\ StaleCrashLoop(rlFile.agents)
    /\ rlLast = [op |-> "Load", id |-> "", res |-> ""]
    /\ IsInCrashLoop(rlMem.agents, "a")

TypeOK ==
    /\ now \in 0..MaxNow
    /\ DOMAIN agents \subseteq AgentIDs
    /\ \A id \in DOMAIN agents :
           /\ agents[id].RestartCount \in 0..MaxRestarts
           /\ agents[id].LastRestart \in 1..now
    /\ \A c \in DOMAIN pc : call[c] \in SlingParams
    /\ queued \subseteq Beads /\ sessions \subseteq Beads

====
